---- MODULE Spec2Model ----
(***************************************************************************)
(* A model of create_bilingual_pdf.py: the question extractor              *)
(* (extract_questions_from_pdf), the dictionary translator                 *)
(* (comprehensive_translate) and the story builder (create_bilingual_pdf). *)
(*                                                                         *)
(* A text is a sequence of Unicode code points, so that Spanish and        *)
(* Russian text are told apart exactly as Python's str does.  The cursor   *)
(* i and the indices j are 0-based as in the source; At(s, n) reads s[n].  *)
(***************************************************************************)
EXTENDS Integers, Sequences, FiniteSets, TLC

(***************************************************************************)
(* Python str primitives.                                                  *)
(***************************************************************************)

\* s[n] with a 0-based index
At(s, n) == s[n + 1]

\* s[p:p+len(k)] == k, p 1-based
MatchesAt(s, k, p) ==
    /\ p >= 1
    /\ p + Len(k) - 1 <= Len(s)
    /\ Len(k) = 0 \/ s[p] = k[1]
    /\ SubSeq(s, p, p + Len(k) - 1) = k

\* k in s
Contains(s, k) == \E p \in 1..(Len(s) - Len(k) + 1) : MatchesAt(s, k, p)

\* s.find(k) + 1: the position of the leftmost occurrence, 0 when there is none
Find(s, k) ==
    IF Contains(s, k)
    THEN CHOOSE p \in 1..(Len(s) - Len(k) + 1) :
            /\ MatchesAt(s, k, p)
            /\ \A q \in 1..(p - 1) : ~MatchesAt(s, k, q)
    ELSE 0

\* s.replace(k, v): every leftmost non-overlapping occurrence, left to right
RECURSIVE Replace(_, _, _)
Replace(s, k, v) ==
    LET p == Find(s, k)
    IN  IF p = 0 THEN s
        ELSE SubSeq(s, 1, p - 1) \o v \o Replace(SubSeq(s, p + Len(k), Len(s)), k, v)

\* the characters str.strip() removes and the regex class \s matches
Whitespace == {9, 10, 11, 12, 13, 28, 29, 30, 31, 32, 133, 160}

IsUpperChar(c) ==
    \/ c >= 65 /\ c <= 90
    \/ c >= 192 /\ c <= 222 /\ c # 215
    \/ c >= 1024 /\ c <= 1071

IsLowerChar(c) ==
    \/ c >= 97 /\ c <= 122
    \/ c >= 223 /\ c <= 255 /\ c # 247
    \/ c = 170 \/ c = 181 \/ c = 186
    \/ c >= 1072 /\ c <= 1119

\* chr.lower()
LowerChar(c) ==
    IF (c >= 65 /\ c <= 90) \/ (c >= 192 /\ c <= 222 /\ c # 215) \/ (c >= 1040 /\ c <= 1071)
    THEN c + 32
    ELSE IF c >= 1024 /\ c <= 1039 THEN c + 80
    ELSE c

\* s.lower()
lower(s) == [n \in 1..Len(s) |-> LowerChar(s[n])]

\* s.isupper(): at least one cased character and no lowercase one
isupper(s) ==
    /\ \E n \in 1..Len(s) : IsUpperChar(s[n])
    /\ \A n \in 1..Len(s) : ~IsLowerChar(s[n])

\* s.strip()
RECURSIVE lstrip(_)
lstrip(s) == IF s # <<>> /\ Head(s) \in Whitespace THEN lstrip(Tail(s)) ELSE s

RECURSIVE rstrip(_)
rstrip(s) ==
    IF s # <<>> /\ s[Len(s)] \in Whitespace THEN rstrip(SubSeq(s, 1, Len(s) - 1)) ELSE s

strip(s) == rstrip(lstrip(s))

\* s.endswith('?')
EndsWithQuestionMark(s) == Len(s) > 0 /\ s[Len(s)] = 63

\* str(n) for n >= 0
RECURSIVE str(_)
str(n) == IF n < 10 THEN <<48 + n>> ELSE str(n \div 10) \o <<48 + (n % 10)>>

(***************************************************************************)
(* The translation dictionary.                                             *)
(***************************************************************************)

(* The dictionary literal of src/create_bilingual_pdf.py lines 32-317, entry by
   entry in source order.  Texts are sequences of Unicode code points. *)
DictLiteral ==
  << << <<191, 81, 117, 233>>, <<1063, 1090, 1086>> >>,  \* 34: "¿Qué": "Что"
     << <<191, 67, 117, 225, 108>>, <<1050, 1072, 1082, 1086, 1081>> >>,  \* 35: "¿Cuál": "Какой"
     << <<191, 67, 117, 225, 108, 101, 115>>, <<1050, 1072, 1082, 1080, 1077>> >>,  \* 36: "¿Cuáles": "Какие"
     << <<191, 67, 243, 109, 111>>, <<1050, 1072, 1082>> >>,  \* 37: "¿Cómo": "Как"
     << <<191, 68, 243, 110, 100, 101>>, <<1043, 1076, 1077>> >>,  \* 38: "¿Dónde": "Где"
     << <<191, 67, 117, 225, 110, 100, 111>>, <<1050, 1086, 1075, 1076, 1072>> >>,  \* 39: "¿Cuándo": "Когда"
     << <<191, 80, 111, 114, 32, 113, 117, 233>>, <<1055, 1086, 1095, 1077, 1084, 1091>> >>,  \* 40: "¿Por qué": "Почему"
     << <<191, 65, 32, 113, 117, 233>>, <<1050, 32, 1095, 1077, 1084, 1091>> >>,  \* 41: "¿A qué": "К чему"
     << <<191, 69, 110, 32, 113, 117, 233>>, <<1042, 32, 1095, 1105, 1084>> >>,  \* 42: "¿En qué": "В чём"
     << <<191, 68, 101, 32, 113, 117, 233>>, <<1054, 32, 1095, 1105, 1084>> >>,  \* 43: "¿De qué": "О чём"
     << <<191, 83, 101, 103, 250, 110>>, <<1057, 1086, 1075, 1083, 1072, 1089, 1085, 1086>> >>,  \* 44: "¿Según": "Согласно"
     << <<191, 80, 117, 101, 100, 101>>, <<1052, 1086, 1078, 1077, 1090, 32, 1083, 1080>> >>,  \* 45: "¿Puede": "Может ли"
     << <<191, 68, 101, 98, 101>>, <<1044, 1086, 1083, 1078, 1077, 1085, 32, 1083, 1080>> >>,  \* 46: "¿Debe": "Должен ли"
     << <<191, 69, 115>>, <<1071, 1074, 1083, 1103, 1077, 1090, 1089, 1103, 32, 1083, 1080>> >>,  \* 47: "¿Es": "Является ли"
     << <<191, 69, 115, 116, 225>>, <<1053, 1072, 1093, 1086, 1076, 1080, 1090, 1089, 1103, 32, 1083, 1080>> >>,  \* 48: "¿Está": "Находится ли"
     << <<86, 101, 114, 100, 97, 100, 101, 114, 111>>, <<1042, 1077, 1088, 1085, 1086>> >>,  \* 51: "Verdadero": "Верно"
     << <<70, 97, 108, 115, 111>>, <<1053, 1077, 1074, 1077, 1088, 1085, 1086>> >>,  \* 52: "Falso": "Неверно"
     << <<65, 46>>, <<1040, 46>> >>,  \* 53: "A.": "А."
     << <<66, 46>>, <<1041, 46>> >>,  \* 54: "B.": "Б."
     << <<67, 46>>, <<1042, 46>> >>,  \* 55: "C.": "В."
     << <<83, 237>>, <<1044, 1072>> >>,  \* 56: "Sí": "Да"
     << <<78, 111>>, <<1053, 1077, 1090>> >>,  \* 57: "No": "Нет"
     << <<102, 97, 99, 116, 111, 114, 32, 115, 101, 32, 100, 101, 98, 101, 110, 32, 108, 97, 32, 109, 97, 121, 111, 114, 237, 97, 32, 100, 101, 32, 108, 111, 115, 32, 115, 105, 110, 105, 101, 115, 116, 114, 111, 115, 32, 118, 105, 97, 108, 101, 115>>, <<1092, 1072, 1082, 1090, 1086, 1088, 32, 1103, 1074, 1083, 1103, 1077, 1090, 1089, 1103, 32, 1087, 1088, 1080, 1095, 1080, 1085, 1086, 1081, 32, 1073, 1086, 1083, 1100, 1096, 1080, 1085, 1089, 1090, 1074, 1072, 32, 1076, 1086, 1088, 1086, 1078, 1085, 1086, 45, 1090, 1088, 1072, 1085, 1089, 1087, 1086, 1088, 1090, 1085, 1099, 1093, 32, 1087, 1088, 1086, 1080, 1089, 1096, 1077, 1089, 1090, 1074, 1080, 1081>> >>,  \* 60: "factor se deben la mayoría de los siniestros viales": "фактор является причиной большинства дорожно-транспортных происшествий"
     << <<79, 114, 103, 97, 110, 105, 122, 97, 99, 105, 243, 110, 32, 77, 117, 110, 100, 105, 97, 108, 32, 100, 101, 32, 108, 97, 32, 83, 97, 108, 117, 100>>, <<1042, 1089, 1077, 1084, 1080, 1088, 1085, 1072, 1103, 32, 1086, 1088, 1075, 1072, 1085, 1080, 1079, 1072, 1094, 1080, 1103, 32, 1079, 1076, 1088, 1072, 1074, 1086, 1086, 1093, 1088, 1072, 1085, 1077, 1085, 1080, 1103>> >>,  \* 61: "Organización Mundial de la Salud": "Всемирная организация здравоохранения"
     << <<114, 101, 115, 117, 108, 116, 97, 100, 111, 32, 100, 101, 32, 100, 105, 118, 101, 114, 115, 111, 115, 32, 102, 97, 99, 116, 111, 114, 101, 115>>, <<1088, 1077, 1079, 1091, 1083, 1100, 1090, 1072, 1090, 32, 1088, 1072, 1079, 1083, 1080, 1095, 1085, 1099, 1093, 32, 1092, 1072, 1082, 1090, 1086, 1088, 1086, 1074>> >>,  \* 62: "resultado de diversos factores": "результат различных факторов"
     << <<97, 117, 109, 101, 110, 116, 97, 114, 32, 108, 97, 32, 112, 114, 111, 112, 105, 97, 32, 115, 101, 103, 117, 114, 105, 100, 97, 100>>, <<1087, 1086, 1074, 1099, 1089, 1080, 1090, 1100, 32, 1089, 1086, 1073, 1089, 1090, 1074, 1077, 1085, 1085, 1091, 1102, 32, 1073, 1077, 1079, 1086, 1087, 1072, 1089, 1085, 1086, 1089, 1090, 1100>> >>,  \* 63: "aumentar la propia seguridad": "повысить собственную безопасность"
     << <<99, 111, 110, 100, 105, 99, 105, 111, 110, 101, 115, 32, 101, 110, 32, 113, 117, 101, 32, 115, 101, 32, 101, 110, 99, 117, 101, 110, 116, 114, 97, 110>>, <<1091, 1089, 1083, 1086, 1074, 1080, 1103, 44, 32, 1074, 32, 1082, 1086, 1090, 1086, 1088, 1099, 1093, 32, 1085, 1072, 1093, 1086, 1076, 1103, 1090, 1089, 1103>> >>,  \* 64: "condiciones en que se encuentran": "условия, в которых находятся"
     << <<105, 110, 102, 114, 97, 101, 115, 116, 114, 117, 99, 116, 117, 114, 97, 32, 118, 105, 97, 108>>, <<1076, 1086, 1088, 1086, 1078, 1085, 1072, 1103, 32, 1080, 1085, 1092, 1088, 1072, 1089, 1090, 1088, 1091, 1082, 1090, 1091, 1088, 1072>> >>,  \* 65: "infraestructura vial": "дорожная инфраструктура"
     << <<99, 111, 110, 100, 105, 99, 105, 111, 110, 101, 115, 32, 99, 108, 105, 109, 225, 116, 105, 99, 97, 115>>, <<1082, 1083, 1080, 1084, 1072, 1090, 1080, 1095, 1077, 1089, 1082, 1080, 1077, 32, 1091, 1089, 1083, 1086, 1074, 1080, 1103>> >>,  \* 66: "condiciones climáticas": "климатические условия"
     << <<102, 97, 99, 116, 111, 114, 32, 97, 109, 98, 105, 101, 110, 116, 97, 108>>, <<1101, 1082, 1086, 1083, 1086, 1075, 1080, 1095, 1077, 1089, 1082, 1080, 1081, 32, 1092, 1072, 1082, 1090, 1086, 1088>> >>,  \* 67: "factor ambiental": "экологический фактор"
     << <<112, 114, 105, 110, 99, 105, 112, 97, 108, 32, 102, 97, 99, 116, 111, 114, 32, 100, 101, 32, 114, 105, 101, 115, 103, 111>>, <<1086, 1089, 1085, 1086, 1074, 1085, 1086, 1081, 32, 1092, 1072, 1082, 1090, 1086, 1088, 32, 1088, 1080, 1089, 1082, 1072>> >>,  \* 68: "principal factor de riesgo": "основной фактор риска"
     << <<99, 111, 110, 100, 105, 99, 105, 111, 110, 101, 115, 32, 109, 101, 116, 101, 111, 114, 111, 108, 243, 103, 105, 99, 97, 115>>, <<1084, 1077, 1090, 1077, 1086, 1088, 1086, 1083, 1086, 1075, 1080, 1095, 1077, 1089, 1082, 1080, 1077, 32, 1091, 1089, 1083, 1086, 1074, 1080, 1103>> >>,  \* 69: "condiciones meteorológicas": "метеорологические условия"
     << <<102, 97, 108, 108, 97, 115, 32, 109, 101, 99, 225, 110, 105, 99, 97, 115>>, <<1084, 1077, 1093, 1072, 1085, 1080, 1095, 1077, 1089, 1082, 1080, 1077, 32, 1085, 1077, 1080, 1089, 1087, 1088, 1072, 1074, 1085, 1086, 1089, 1090, 1080>> >>,  \* 70: "fallas mecánicas": "механические неисправности"
     << <<99, 111, 110, 100, 117, 99, 116, 97, 115, 32, 110, 101, 103, 108, 105, 103, 101, 110, 116, 101, 115>>, <<1085, 1077, 1073, 1088, 1077, 1078, 1085, 1086, 1077, 32, 1087, 1086, 1074, 1077, 1076, 1077, 1085, 1080, 1077>> >>,  \* 71: "conductas negligentes": "небрежное поведение"
     << <<112, 114, 111, 112, 105, 101, 116, 97, 114, 105, 111, 115, 32, 100, 101, 32, 108, 111, 115, 32, 118, 101, 104, 237, 99, 117, 108, 111, 115>>, <<1074, 1083, 1072, 1076, 1077, 1083, 1100, 1094, 1099, 32, 1090, 1088, 1072, 1085, 1089, 1087, 1086, 1088, 1090, 1085, 1099, 1093, 32, 1089, 1088, 1077, 1076, 1089, 1090, 1074>> >>,  \* 72: "propietarios de los vehículos": "владельцы транспортных средств"
     << <<118, 101, 114, 105, 102, 105, 99, 97, 99, 105, 243, 110, 32, 100, 101, 108, 32, 101, 115, 116, 97, 100, 111>>, <<1087, 1088, 1086, 1074, 1077, 1088, 1082, 1072, 32, 1089, 1086, 1089, 1090, 1086, 1103, 1085, 1080, 1103>> >>,  \* 73: "verificación del estado": "проверка состояния"
     << <<105, 110, 99, 105, 100, 101, 110, 116, 101, 32, 100, 101, 32, 116, 114, 225, 110, 115, 105, 116, 111>>, <<1076, 1086, 1088, 1086, 1078, 1085, 1099, 1081, 32, 1080, 1085, 1094, 1080, 1076, 1077, 1085, 1090>> >>,  \* 74: "incidente de tránsito": "дорожный инцидент"
     << <<105, 110, 99, 105, 100, 101, 110, 116, 101, 32, 118, 105, 97, 108>>, <<1076, 1086, 1088, 1086, 1078, 1085, 1086, 1077, 32, 1087, 1088, 1086, 1080, 1089, 1096, 1077, 1089, 1090, 1074, 1080, 1077>> >>,  \* 75: "incidente vial": "дорожное происшествие"
     << <<99, 105, 114, 99, 117, 108, 97, 99, 105, 243, 110, 32, 101, 110, 32, 108, 97, 32, 118, 237, 97, 32, 112, 250, 98, 108, 105, 99, 97>>, <<1076, 1074, 1080, 1078, 1077, 1085, 1080, 1077, 32, 1087, 1086, 32, 1086, 1073, 1097, 1077, 1089, 1090, 1074, 1077, 1085, 1085, 1099, 1084, 32, 1076, 1086, 1088, 1086, 1075, 1072, 1084>> >>,  \* 76: "circulación en la vía pública": "движение по общественным дорогам"
     << <<117, 115, 117, 97, 114, 105, 111, 115, 32, 100, 101, 32, 108, 97, 32, 118, 237, 97, 32, 112, 250, 98, 108, 105, 99, 97>>, <<1087, 1086, 1083, 1100, 1079, 1086, 1074, 1072, 1090, 1077, 1083, 1080, 32, 1086, 1073, 1097, 1077, 1089, 1090, 1074, 1077, 1085, 1085, 1099, 1093, 32, 1076, 1086, 1088, 1086, 1075>> >>,  \* 77: "usuarios de la vía pública": "пользователи общественных дорог"
     << <<114, 101, 115, 112, 111, 110, 115, 97, 98, 108, 101, 32, 100, 101, 32, 117, 110, 97, 32, 112, 97, 114, 116, 101, 32, 100, 101, 108, 32, 116, 114, 225, 110, 115, 105, 116, 111>>, <<1086, 1090, 1074, 1077, 1090, 1089, 1090, 1074, 1077, 1085, 1077, 1085, 32, 1079, 1072, 32, 1095, 1072, 1089, 1090, 1100, 32, 1076, 1086, 1088, 1086, 1078, 1085, 1086, 1075, 1086, 32, 1076, 1074, 1080, 1078, 1077, 1085, 1080, 1103>> >>,  \* 78: "responsable de una parte del tránsito": "ответственен за часть дорожного движения"
     << <<110, 111, 32, 99, 97, 117, 115, 97, 114, 32, 112, 101, 108, 105, 103, 114, 111>>, <<1085, 1077, 32, 1089, 1086, 1079, 1076, 1072, 1074, 1072, 1090, 1100, 32, 1086, 1087, 1072, 1089, 1085, 1086, 1089, 1090, 1100>> >>,  \* 79: "no causar peligro": "не создавать опасность"
     << <<101, 110, 116, 111, 114, 112, 101, 99, 101, 114, 32, 108, 97, 32, 99, 105, 114, 99, 117, 108, 97, 99, 105, 243, 110>>, <<1087, 1088, 1077, 1087, 1103, 1090, 1089, 1090, 1074, 1086, 1074, 1072, 1090, 1100, 32, 1076, 1074, 1080, 1078, 1077, 1085, 1080, 1102>> >>,  \* 80: "entorpecer la circulación": "препятствовать движению"
     << <<101, 115, 116, 97, 109, 111, 115, 32, 111, 98, 108, 105, 103, 97, 100, 111, 115>>, <<1084, 1099, 32, 1086, 1073, 1103, 1079, 1072, 1085, 1099>> >>,  \* 81: "estamos obligados": "мы обязаны"
     << <<112, 101, 114, 106, 117, 105, 99, 105, 111, 115, 32, 111, 32, 109, 111, 108, 101, 115, 116, 105, 97, 115, 32, 105, 110, 110, 101, 99, 101, 115, 97, 114, 105, 97, 115>>, <<1085, 1077, 1085, 1091, 1078, 1085, 1099, 1081, 32, 1074, 1088, 1077, 1076, 32, 1080, 1083, 1080, 32, 1085, 1077, 1091, 1076, 1086, 1073, 1089, 1090, 1074, 1072>> >>,  \* 82: "perjuicios o molestias innecesarias": "ненужный вред или неудобства"
     << <<118, 237, 99, 116, 105, 109, 97, 115, 32, 102, 97, 116, 97, 108, 101, 115>>, <<1089, 1084, 1077, 1088, 1090, 1077, 1083, 1100, 1085, 1099, 1077, 32, 1078, 1077, 1088, 1090, 1074, 1099>> >>,  \* 83: "víctimas fatales": "смертельные жертвы"
     << <<108, 101, 115, 105, 111, 110, 97, 100, 111, 115, 32, 103, 114, 97, 118, 101, 115>>, <<1089, 1077, 1088, 1100, 1105, 1079, 1085, 1086, 32, 1087, 1086, 1089, 1090, 1088, 1072, 1076, 1072, 1074, 1096, 1080, 1077>> >>,  \* 84: "lesionados graves": "серьёзно пострадавшие"
     << <<115, 105, 110, 105, 101, 115, 116, 114, 111, 32, 100, 101, 32, 116, 114, 225, 110, 115, 105, 116, 111>>, <<1076, 1086, 1088, 1086, 1078, 1085, 1086, 45, 1090, 1088, 1072, 1085, 1089, 1087, 1086, 1088, 1090, 1085, 1086, 1077, 32, 1087, 1088, 1086, 1080, 1089, 1096, 1077, 1089, 1090, 1074, 1080, 1077>> >>,  \* 85: "siniestro de tránsito": "дорожно-транспортное происшествие"
     << <<100, 97, 241, 111, 115, 32, 109, 97, 116, 101, 114, 105, 97, 108, 101, 115>>, <<1084, 1072, 1090, 1077, 1088, 1080, 1072, 1083, 1100, 1085, 1099, 1081, 32, 1091, 1097, 1077, 1088, 1073>> >>,  \* 86: "daños materiales": "материальный ущерб"
     << <<99, 111, 115, 116, 111, 115, 32, 115, 97, 110, 105, 116, 97, 114, 105, 111, 115>>, <<1084, 1077, 1076, 1080, 1094, 1080, 1085, 1089, 1082, 1080, 1077, 32, 1088, 1072, 1089, 1093, 1086, 1076, 1099>> >>,  \* 87: "costos sanitarios": "медицинские расходы"
     << <<99, 111, 115, 116, 111, 115, 32, 97, 100, 109, 105, 110, 105, 115, 116, 114, 97, 116, 105, 118, 111, 115>>, <<1072, 1076, 1084, 1080, 1085, 1080, 1089, 1090, 1088, 1072, 1090, 1080, 1074, 1085, 1099, 1077, 32, 1088, 1072, 1089, 1093, 1086, 1076, 1099>> >>,  \* 88: "costos administrativos": "административные расходы"
     << <<112, 114, 101, 109, 105, 115, 97, 32, 98, 225, 115, 105, 99, 97>>, <<1086, 1089, 1085, 1086, 1074, 1085, 1072, 1103, 32, 1087, 1088, 1077, 1076, 1087, 1086, 1089, 1099, 1083, 1082, 1072>> >>,  \* 89: "premisa básica": "основная предпосылка"
     << <<111, 98, 108, 105, 103, 97, 99, 105, 243, 110, 32, 100, 101, 32, 110, 111, 32, 101, 110, 116, 111, 114, 112, 101, 99, 101, 114>>, <<1086, 1073, 1103, 1079, 1072, 1090, 1077, 1083, 1100, 1089, 1090, 1074, 1086, 32, 1085, 1077, 32, 1087, 1088, 1077, 1087, 1103, 1090, 1089, 1090, 1074, 1086, 1074, 1072, 1090, 1100>> >>,  \* 90: "obligación de no entorpecer": "обязательство не препятствовать"
     << <<101, 120, 112, 101, 114, 105, 101, 110, 99, 105, 97, 32, 100, 101, 32, 109, 97, 110, 101, 106, 111>>, <<1086, 1087, 1099, 1090, 32, 1074, 1086, 1078, 1076, 1077, 1085, 1080, 1103>> >>,  \* 91: "experiencia de manejo": "опыт вождения"
     << <<99, 117, 114, 115, 111, 115, 32, 100, 101, 32, 97, 99, 116, 117, 97, 108, 105, 122, 97, 99, 105, 243, 110>>, <<1082, 1091, 1088, 1089, 1099, 32, 1087, 1086, 1074, 1099, 1096, 1077, 1085, 1080, 1103, 32, 1082, 1074, 1072, 1083, 1080, 1092, 1080, 1082, 1072, 1094, 1080, 1080>> >>,  \* 92: "cursos de actualización": "курсы повышения квалификации"
     << <<116, 101, 109, 225, 116, 105, 99, 97, 32, 118, 105, 97, 108>>, <<1076, 1086, 1088, 1086, 1078, 1085, 1072, 1103, 32, 1090, 1077, 1084, 1072, 1090, 1080, 1082, 1072>> >>,  \* 93: "temática vial": "дорожная тематика"
     << <<102, 114, 101, 99, 117, 101, 110, 99, 105, 97, 32, 110, 111, 32, 109, 97, 121, 111, 114>>, <<1095, 1072, 1089, 1090, 1086, 1090, 1072, 32, 1085, 1077, 32, 1073, 1086, 1083, 1077, 1077>> >>,  \* 94: "frecuencia no mayor": "частота не более"
     << <<112, 114, 105, 110, 99, 105, 112, 105, 111, 115, 32, 98, 225, 115, 105, 99, 111, 115>>, <<1086, 1089, 1085, 1086, 1074, 1085, 1099, 1077, 32, 1087, 1088, 1080, 1085, 1094, 1080, 1087, 1099>> >>,  \* 95: "principios básicos": "основные принципы"
     << <<115, 105, 115, 116, 101, 109, 97, 32, 100, 101, 32, 116, 114, 225, 110, 115, 105, 116, 111>>, <<1089, 1080, 1089, 1090, 1077, 1084, 1072, 32, 1076, 1086, 1088, 1086, 1078, 1085, 1086, 1075, 1086, 32, 1076, 1074, 1080, 1078, 1077, 1085, 1080, 1103>> >>,  \* 96: "sistema de tránsito": "система дорожного движения"
     << <<118, 101, 108, 111, 99, 105, 100, 97, 100, 32, 121, 32, 99, 111, 110, 102, 111, 114, 116>>, <<1089, 1082, 1086, 1088, 1086, 1089, 1090, 1100, 32, 1080, 32, 1082, 1086, 1084, 1092, 1086, 1088, 1090>> >>,  \* 97: "velocidad y confort": "скорость и комфорт"
     << <<102, 108, 117, 105, 100, 101, 122, 32, 121, 32, 115, 101, 103, 117, 114, 105, 100, 97, 100>>, <<1087, 1083, 1072, 1074, 1085, 1086, 1089, 1090, 1100, 32, 1080, 32, 1073, 1077, 1079, 1086, 1087, 1072, 1089, 1085, 1086, 1089, 1090, 1100>> >>,  \* 98: "fluidez y seguridad": "плавность и безопасность"
     << <<99, 111, 109, 111, 100, 105, 100, 97, 100, 32, 121, 32, 97, 103, 105, 108, 105, 100, 97, 100>>, <<1091, 1076, 1086, 1073, 1089, 1090, 1074, 1086, 32, 1080, 32, 1083, 1086, 1074, 1082, 1086, 1089, 1090, 1100>> >>,  \* 99: "comodidad y agilidad": "удобство и ловкость"
     << <<109, 97, 121, 111, 114, 32, 112, 114, 111, 98, 97, 98, 105, 108, 105, 100, 97, 100, 32, 100, 101, 32, 115, 105, 110, 105, 101, 115, 116, 114, 97, 108, 105, 100, 97, 100>>, <<1073, 1086, 1083, 1100, 1096, 1072, 1103, 32, 1074, 1077, 1088, 1086, 1103, 1090, 1085, 1086, 1089, 1090, 1100, 32, 1072, 1074, 1072, 1088, 1080, 1081>> >>,  \* 100: "mayor probabilidad de siniestralidad": "большая вероятность аварий"
     << <<109, 101, 110, 111, 114, 32, 99, 97, 110, 116, 105, 100, 97, 100, 32, 100, 101, 32, 118, 101, 104, 237, 99, 117, 108, 111, 115>>, <<1084, 1077, 1085, 1100, 1096, 1077, 1077, 32, 1082, 1086, 1083, 1080, 1095, 1077, 1089, 1090, 1074, 1086, 32, 1090, 1088, 1072, 1085, 1089, 1087, 1086, 1088, 1090, 1085, 1099, 1093, 32, 1089, 1088, 1077, 1076, 1089, 1090, 1074>> >>,  \* 101: "menor cantidad de vehículos": "меньшее количество транспортных средств"
     << <<109, 97, 121, 111, 114, 32, 99, 97, 110, 116, 105, 100, 97, 100, 32, 100, 101, 32, 118, 101, 104, 237, 99, 117, 108, 111, 115>>, <<1073, 1086, 1083, 1100, 1096, 1077, 1077, 32, 1082, 1086, 1083, 1080, 1095, 1077, 1089, 1090, 1074, 1086, 32, 1090, 1088, 1072, 1085, 1089, 1087, 1086, 1088, 1090, 1085, 1099, 1093, 32, 1089, 1088, 1077, 1076, 1089, 1090, 1074>> >>,  \* 102: "mayor cantidad de vehículos": "большее количество транспортных средств"
     << <<109, 101, 110, 111, 114, 32, 112, 114, 111, 98, 97, 98, 105, 108, 105, 100, 97, 100>>, <<1084, 1077, 1085, 1100, 1096, 1072, 1103, 32, 1074, 1077, 1088, 1086, 1103, 1090, 1085, 1086, 1089, 1090, 1100>> >>,  \* 103: "menor probabilidad": "меньшая вероятность"
     << <<117, 115, 117, 97, 114, 105, 111, 115, 32, 100, 101, 32, 108, 97, 32, 118, 237, 97>>, <<1087, 1086, 1083, 1100, 1079, 1086, 1074, 1072, 1090, 1077, 1083, 1080, 32, 1076, 1086, 1088, 1086, 1075, 1080>> >>,  \* 104: "usuarios de la vía": "пользователи дороги"
     << <<111, 114, 100, 101, 110, 97, 100, 111, 115, 32, 100, 101, 32, 109, 225, 115, 32, 97, 32, 109, 101, 110, 111, 115, 32, 118, 117, 108, 110, 101, 114, 97, 98, 108, 101>>, <<1091, 1087, 1086, 1088, 1103, 1076, 1086, 1095, 1077, 1085, 1099, 32, 1086, 1090, 32, 1085, 1072, 1080, 1073, 1086, 1083, 1077, 1077, 32, 1082, 32, 1085, 1072, 1080, 1084, 1077, 1085, 1077, 1077, 32, 1091, 1103, 1079, 1074, 1080, 1084, 1099, 1084>> >>,  \* 105: "ordenados de más a menos vulnerable": "упорядочены от наиболее к наименее уязвимым"
     << <<100, 101, 109, 97, 114, 99, 97, 99, 105, 243, 110, 32, 104, 111, 114, 105, 122, 111, 110, 116, 97, 108, 32, 118, 101, 114, 100, 101>>, <<1079, 1077, 1083, 1105, 1085, 1072, 1103, 32, 1075, 1086, 1088, 1080, 1079, 1086, 1085, 1090, 1072, 1083, 1100, 1085, 1072, 1103, 32, 1088, 1072, 1079, 1084, 1077, 1090, 1082, 1072>> >>,  \* 106: "demarcación horizontal verde": "зелёная горизонтальная разметка"
     << <<105, 110, 116, 101, 114, 115, 101, 99, 99, 105, 243, 110, 32, 104, 97, 121, 32, 117, 110, 97, 32, 99, 105, 99, 108, 111, 118, 237, 97>>, <<1087, 1077, 1088, 1077, 1082, 1088, 1105, 1089, 1090, 1082, 1077, 32, 1077, 1089, 1090, 1100, 32, 1074, 1077, 1083, 1086, 1089, 1080, 1087, 1077, 1076, 1085, 1072, 1103, 32, 1076, 1086, 1088, 1086, 1078, 1082, 1072>> >>,  \* 107: "intersección hay una ciclovía": "перекрёстке есть велосипедная дорожка"
     << <<115, 101, 32, 97, 112, 114, 111, 120, 105, 109, 97, 32, 97, 32, 117, 110, 32, 99, 114, 117, 99, 101, 32, 102, 101, 114, 114, 111, 118, 105, 97, 114, 105, 111>>, <<1087, 1088, 1080, 1073, 1083, 1080, 1078, 1072, 1077, 1090, 1089, 1103, 32, 1082, 32, 1078, 1077, 1083, 1077, 1079, 1085, 1086, 1076, 1086, 1088, 1086, 1078, 1085, 1086, 1084, 1091, 32, 1087, 1077, 1088, 1077, 1077, 1079, 1076, 1091>> >>,  \* 108: "se aproxima a un cruce ferroviario": "приближается к железнодорожному переезду"
     << <<99, 114, 117, 99, 101, 32, 101, 120, 99, 108, 117, 115, 105, 118, 111, 32, 100, 101, 32, 112, 101, 97, 116, 111, 110, 101, 115>>, <<1087, 1077, 1096, 1077, 1093, 1086, 1076, 1085, 1099, 1081, 32, 1087, 1077, 1088, 1077, 1093, 1086, 1076>> >>,  \* 109: "cruce exclusivo de peatones": "пешеходный переход"
     << <<100, 101, 109, 97, 114, 99, 97, 99, 105, 243, 110, 32, 100, 101, 32, 108, 97, 32, 115, 101, 110, 100, 97, 32, 112, 101, 97, 116, 111, 110, 97, 108>>, <<1088, 1072, 1079, 1084, 1077, 1090, 1082, 1072, 32, 1087, 1077, 1096, 1077, 1093, 1086, 1076, 1085, 1086, 1081, 32, 1076, 1086, 1088, 1086, 1078, 1082, 1080>> >>,  \* 110: "demarcación de la senda peatonal": "разметка пешеходной дорожки"
     << <<112, 111, 114, 32, 100, 243, 110, 100, 101, 32, 100, 101, 98, 101, 110, 32, 99, 114, 117, 122, 97, 114>>, <<1075, 1076, 1077, 32, 1076, 1086, 1083, 1078, 1085, 1099, 32, 1087, 1077, 1088, 1077, 1093, 1086, 1076, 1080, 1090, 1100>> >>,  \* 111: "por dónde deben cruzar": "где должны переходить"
     << <<101, 115, 32, 105, 110, 100, 105, 115, 116, 105, 110, 116, 111>>, <<1074, 1089, 1105, 32, 1088, 1072, 1074, 1085, 1086>> >>,  \* 112: "es indistinto": "всё равно"
     << <<109, 105, 114, 101, 110, 32, 97, 32, 97, 109, 98, 111, 115, 32, 108, 97, 100, 111, 115>>, <<1087, 1086, 1089, 1084, 1086, 1090, 1088, 1103, 1090, 32, 1074, 32, 1086, 1073, 1077, 32, 1089, 1090, 1086, 1088, 1086, 1085, 1099>> >>,  \* 113: "miren a ambos lados": "посмотрят в обе стороны"
     << <<99, 111, 105, 110, 99, 105, 100, 101, 110, 99, 105, 97, 32, 99, 111, 110, 32, 108, 97, 115, 32, 112, 97, 114, 97, 100, 97, 115>>, <<1089, 1086, 1074, 1087, 1072, 1076, 1077, 1085, 1080, 1077, 32, 1089, 32, 1086, 1089, 1090, 1072, 1085, 1086, 1074, 1082, 1072, 1084, 1080>> >>,  \* 114: "coincidencia con las paradas": "совпадение с остановками"
     << <<112, 114, 111, 108, 111, 110, 103, 97, 99, 105, 243, 110, 32, 108, 111, 110, 103, 105, 116, 117, 100, 105, 110, 97, 108>>, <<1087, 1088, 1086, 1076, 1086, 1083, 1100, 1085, 1086, 1077, 32, 1087, 1088, 1086, 1076, 1086, 1083, 1078, 1077, 1085, 1080, 1077>> >>,  \* 115: "prolongación longitudinal": "продольное продолжение"
     << <<99, 97, 114, 114, 105, 108, 101, 115, 32, 101, 120, 99, 108, 117, 115, 105, 118, 111, 115>>, <<1074, 1099, 1076, 1077, 1083, 1077, 1085, 1085, 1099, 1077, 32, 1087, 1086, 1083, 1086, 1089, 1099>> >>,  \* 116: "carriles exclusivos": "выделенные полосы"
     << <<250, 110, 105, 99, 111, 32, 115, 101, 110, 116, 105, 100, 111, 32, 100, 101, 32, 99, 105, 114, 99, 117, 108, 97, 99, 105, 243, 110>>, <<1086, 1076, 1085, 1086, 1089, 1090, 1086, 1088, 1086, 1085, 1085, 1077, 1077, 32, 1076, 1074, 1080, 1078, 1077, 1085, 1080, 1077>> >>,  \* 117: "único sentido de circulación": "одностороннее движение"
     << <<98, 97, 110, 100, 97, 115, 32, 108, 111, 110, 103, 105, 116, 117, 100, 105, 110, 97, 108, 101, 115, 32, 100, 101, 109, 97, 114, 99, 97, 100, 97, 115>>, <<1088, 1072, 1079, 1084, 1077, 1095, 1077, 1085, 1085, 1099, 1077, 32, 1087, 1088, 1086, 1076, 1086, 1083, 1100, 1085, 1099, 1077, 32, 1087, 1086, 1083, 1086, 1089, 1099>> >>,  \* 118: "bandas longitudinales demarcadas": "размеченные продольные полосы"
     << <<99, 97, 108, 122, 97, 100, 97, 32, 100, 101, 115, 116, 105, 110, 97, 100, 97, 115>>, <<1087, 1088, 1086, 1077, 1079, 1078, 1072, 1103, 32, 1095, 1072, 1089, 1090, 1100, 32, 1087, 1088, 1077, 1076, 1085, 1072, 1079, 1085, 1072, 1095, 1077, 1085, 1072>> >>,  \* 119: "calzada destinadas": "проезжая часть предназначена"
     << <<100, 101, 116, 101, 114, 109, 105, 110, 97, 100, 111, 115, 32, 118, 101, 104, 237, 99, 117, 108, 111, 115>>, <<1086, 1087, 1088, 1077, 1076, 1077, 1083, 1105, 1085, 1085, 1099, 1077, 32, 1090, 1088, 1072, 1085, 1089, 1087, 1086, 1088, 1090, 1085, 1099, 1077, 32, 1089, 1088, 1077, 1076, 1089, 1090, 1074, 1072>> >>,  \* 120: "determinados vehículos": "определённые транспортные средства"
     << <<97, 109, 98, 117, 108, 97, 110, 99, 105, 97, 115, 44, 32, 98, 111, 109, 98, 101, 114, 111, 115>>, <<1089, 1082, 1086, 1088, 1072, 1103, 32, 1087, 1086, 1084, 1086, 1097, 1100, 44, 32, 1087, 1086, 1078, 1072, 1088, 1085, 1099, 1077>> >>,  \* 121: "ambulancias, bomberos": "скорая помощь, пожарные"
     << <<118, 101, 104, 237, 99, 117, 108, 111, 115, 32, 112, 111, 108, 105, 99, 105, 97, 108, 101, 115>>, <<1087, 1086, 1083, 1080, 1094, 1077, 1081, 1089, 1082, 1080, 1077, 32, 1084, 1072, 1096, 1080, 1085, 1099>> >>,  \* 122: "vehículos policiales": "полицейские машины"
     << <<118, 101, 104, 237, 99, 117, 108, 111>>, <<1090, 1088, 1072, 1085, 1089, 1087, 1086, 1088, 1090, 1085, 1086, 1077, 32, 1089, 1088, 1077, 1076, 1089, 1090, 1074, 1086>> >>,  \* 125: "vehículo": "транспортное средство"
     << <<118, 101, 104, 237, 99, 117, 108, 111, 115>>, <<1090, 1088, 1072, 1085, 1089, 1087, 1086, 1088, 1090, 1085, 1099, 1077, 32, 1089, 1088, 1077, 1076, 1089, 1090, 1074, 1072>> >>,  \* 126: "vehículos": "транспортные средства"
     << <<97, 117, 116, 111, 109, 243, 118, 105, 108>>, <<1072, 1074, 1090, 1086, 1084, 1086, 1073, 1080, 1083, 1100>> >>,  \* 127: "automóvil": "автомобиль"
     << <<99, 111, 110, 100, 117, 99, 116, 111, 114>>, <<1074, 1086, 1076, 1080, 1090, 1077, 1083, 1100>> >>,  \* 128: "conductor": "водитель"
     << <<99, 111, 110, 100, 117, 99, 116, 111, 114, 101, 115>>, <<1074, 1086, 1076, 1080, 1090, 1077, 1083, 1080>> >>,  \* 129: "conductores": "водители"
     << <<99, 111, 110, 100, 117, 99, 105, 114>>, <<1074, 1086, 1076, 1080, 1090, 1100>> >>,  \* 130: "conducir": "водить"
     << <<99, 111, 110, 100, 117, 99, 99, 105, 243, 110>>, <<1074, 1086, 1078, 1076, 1077, 1085, 1080, 1077>> >>,  \* 131: "conducción": "вождение"
     << <<116, 114, 225, 110, 115, 105, 116, 111>>, <<1076, 1086, 1088, 1086, 1078, 1085, 1086, 1077, 32, 1076, 1074, 1080, 1078, 1077, 1085, 1080, 1077>> >>,  \* 132: "tránsito": "дорожное движение"
     << <<99, 105, 114, 99, 117, 108, 97, 99, 105, 243, 110>>, <<1076, 1074, 1080, 1078, 1077, 1085, 1080, 1077>> >>,  \* 133: "circulación": "движение"
     << <<118, 237, 97, 32, 112, 250, 98, 108, 105, 99, 97>>, <<1086, 1073, 1097, 1077, 1089, 1090, 1074, 1077, 1085, 1085, 1072, 1103, 32, 1076, 1086, 1088, 1086, 1075, 1072>> >>,  \* 134: "vía pública": "общественная дорога"
     << <<99, 97, 108, 122, 97, 100, 97>>, <<1087, 1088, 1086, 1077, 1079, 1078, 1072, 1103, 32, 1095, 1072, 1089, 1090, 1100>> >>,  \* 135: "calzada": "проезжая часть"
     << <<112, 101, 97, 116, 243, 110>>, <<1087, 1077, 1096, 1077, 1093, 1086, 1076>> >>,  \* 136: "peatón": "пешеход"
     << <<112, 101, 97, 116, 111, 110, 101, 115>>, <<1087, 1077, 1096, 1077, 1093, 1086, 1076, 1099>> >>,  \* 137: "peatones": "пешеходы"
     << <<108, 105, 99, 101, 110, 99, 105, 97>>, <<1083, 1080, 1094, 1077, 1085, 1079, 1080, 1103>> >>,  \* 138: "licencia": "лицензия"
     << <<108, 105, 99, 101, 110, 99, 105, 97, 32, 100, 101, 32, 99, 111, 110, 100, 117, 99, 105, 114>>, <<1074, 1086, 1076, 1080, 1090, 1077, 1083, 1100, 1089, 1082, 1080, 1077, 32, 1087, 1088, 1072, 1074, 1072>> >>,  \* 139: "licencia de conducir": "водительские права"
     << <<115, 101, 103, 117, 114, 105, 100, 97, 100>>, <<1073, 1077, 1079, 1086, 1087, 1072, 1089, 1085, 1086, 1089, 1090, 1100>> >>,  \* 140: "seguridad": "безопасность"
     << <<118, 101, 108, 111, 99, 105, 100, 97, 100>>, <<1089, 1082, 1086, 1088, 1086, 1089, 1090, 1100>> >>,  \* 141: "velocidad": "скорость"
     << <<108, 237, 109, 105, 116, 101>>, <<1086, 1075, 1088, 1072, 1085, 1080, 1095, 1077, 1085, 1080, 1077>> >>,  \* 142: "límite": "ограничение"
     << <<115, 105, 110, 105, 101, 115, 116, 114, 111>>, <<1072, 1074, 1072, 1088, 1080, 1103>> >>,  \* 143: "siniestro": "авария"
     << <<97, 99, 99, 105, 100, 101, 110, 116, 101>>, <<1072, 1074, 1072, 1088, 1080, 1103>> >>,  \* 144: "accidente": "авария"
     << <<99, 111, 108, 105, 115, 105, 243, 110>>, <<1089, 1090, 1086, 1083, 1082, 1085, 1086, 1074, 1077, 1085, 1080, 1077>> >>,  \* 145: "colisión": "столкновение"
     << <<115, 101, 109, 225, 102, 111, 114, 111>>, <<1089, 1074, 1077, 1090, 1086, 1092, 1086, 1088>> >>,  \* 146: "semáforo": "светофор"
     << <<115, 101, 241, 97, 108>>, <<1079, 1085, 1072, 1082>> >>,  \* 147: "señal": "знак"
     << <<115, 101, 241, 97, 108, 105, 122, 97, 99, 105, 243, 110>>, <<1079, 1085, 1072, 1082, 1080>> >>,  \* 148: "señalización": "знаки"
     << <<99, 97, 114, 114, 105, 108>>, <<1087, 1086, 1083, 1086, 1089, 1072>> >>,  \* 149: "carril": "полоса"
     << <<99, 97, 114, 114, 105, 108, 101, 115>>, <<1087, 1086, 1083, 1086, 1089, 1099>> >>,  \* 150: "carriles": "полосы"
     << <<97, 117, 116, 111, 112, 105, 115, 116, 97>>, <<1072, 1074, 1090, 1086, 1084, 1072, 1075, 1080, 1089, 1090, 1088, 1072, 1083, 1100>> >>,  \* 151: "autopista": "автомагистраль"
     << <<97, 118, 101, 110, 105, 100, 97>>, <<1087, 1088, 1086, 1089, 1087, 1077, 1082, 1090>> >>,  \* 152: "avenida": "проспект"
     << <<99, 97, 108, 108, 101>>, <<1091, 1083, 1080, 1094, 1072>> >>,  \* 153: "calle": "улица"
     << <<101, 115, 113, 117, 105, 110, 97>>, <<1091, 1075, 1086, 1083>> >>,  \* 154: "esquina": "угол"
     << <<99, 114, 117, 99, 101>>, <<1087, 1077, 1088, 1077, 1082, 1088, 1077, 1089, 1090, 1086, 1082>> >>,  \* 155: "cruce": "перекресток"
     << <<105, 110, 116, 101, 114, 115, 101, 99, 99, 105, 243, 110>>, <<1087, 1077, 1088, 1077, 1089, 1077, 1095, 1077, 1085, 1080, 1077>> >>,  \* 156: "intersección": "пересечение"
     << <<101, 115, 116, 97, 99, 105, 111, 110, 97, 109, 105, 101, 110, 116, 111>>, <<1087, 1072, 1088, 1082, 1086, 1074, 1082, 1072>> >>,  \* 157: "estacionamiento": "парковка"
     << <<101, 115, 116, 97, 99, 105, 111, 110, 97, 114>>, <<1087, 1072, 1088, 1082, 1086, 1074, 1072, 1090, 1100, 1089, 1103>> >>,  \* 158: "estacionar": "парковаться"
     << <<112, 97, 114, 97, 114>>, <<1086, 1089, 1090, 1072, 1085, 1072, 1074, 1083, 1080, 1074, 1072, 1090, 1100, 1089, 1103>> >>,  \* 159: "parar": "останавливаться"
     << <<100, 101, 116, 101, 110, 101, 114>>, <<1086, 1089, 1090, 1072, 1085, 1072, 1074, 1083, 1080, 1074, 1072, 1090, 1100>> >>,  \* 160: "detener": "останавливать"
     << <<102, 114, 101, 110, 97, 114>>, <<1090, 1086, 1088, 1084, 1086, 1079, 1080, 1090, 1100>> >>,  \* 161: "frenar": "тормозить"
     << <<103, 105, 114, 97, 114>>, <<1087, 1086, 1074, 1086, 1088, 1072, 1095, 1080, 1074, 1072, 1090, 1100>> >>,  \* 162: "girar": "поворачивать"
     << <<100, 101, 114, 101, 99, 104, 97>>, <<1085, 1072, 1087, 1088, 1072, 1074, 1086>> >>,  \* 163: "derecha": "направо"
     << <<105, 122, 113, 117, 105, 101, 114, 100, 97>>, <<1085, 1072, 1083, 1077, 1074, 1086>> >>,  \* 164: "izquierda": "налево"
     << <<97, 100, 101, 108, 97, 110, 116, 97, 114>>, <<1086, 1073, 1075, 1086, 1085, 1103, 1090, 1100>> >>,  \* 165: "adelantar": "обгонять"
     << <<97, 100, 101, 108, 97, 110, 116, 97, 109, 105, 101, 110, 116, 111>>, <<1086, 1073, 1075, 1086, 1085>> >>,  \* 166: "adelantamiento": "обгон"
     << <<100, 105, 115, 116, 97, 110, 99, 105, 97>>, <<1088, 1072, 1089, 1089, 1090, 1086, 1103, 1085, 1080, 1077>> >>,  \* 167: "distancia": "расстояние"
     << <<109, 101, 116, 114, 111>>, <<1084, 1077, 1090, 1088>> >>,  \* 168: "metro": "метр"
     << <<109, 101, 116, 114, 111, 115>>, <<1084, 1077, 1090, 1088, 1086, 1074>> >>,  \* 169: "metros": "метров"
     << <<107, 105, 108, 243, 109, 101, 116, 114, 111>>, <<1082, 1080, 1083, 1086, 1084, 1077, 1090, 1088>> >>,  \* 170: "kilómetro": "километр"
     << <<107, 105, 108, 243, 109, 101, 116, 114, 111, 115>>, <<1082, 1080, 1083, 1086, 1084, 1077, 1090, 1088, 1086, 1074>> >>,  \* 171: "kilómetros": "километров"
     << <<104, 111, 114, 97>>, <<1095, 1072, 1089>> >>,  \* 172: "hora": "час"
     << <<104, 111, 114, 97, 115>>, <<1095, 1072, 1089, 1086, 1074>> >>,  \* 173: "horas": "часов"
     << <<107, 109, 47, 104>>, <<1082, 1084, 47, 1095>> >>,  \* 174: "km/h": "км/ч"
     << <<97, 108, 99, 111, 104, 111, 108>>, <<1072, 1083, 1082, 1086, 1075, 1086, 1083, 1100>> >>,  \* 175: "alcohol": "алкоголь"
     << <<97, 108, 99, 111, 104, 111, 108, 101, 109, 105, 97>>, <<1089, 1086, 1076, 1077, 1088, 1078, 1072, 1085, 1080, 1077, 32, 1072, 1083, 1082, 1086, 1075, 1086, 1083, 1103, 32, 1074, 32, 1082, 1088, 1086, 1074, 1080>> >>,  \* 176: "alcoholemia": "содержание алкоголя в крови"
     << <<115, 97, 110, 103, 114, 101>>, <<1082, 1088, 1086, 1074, 1100>> >>,  \* 177: "sangre": "кровь"
     << <<102, 97, 116, 105, 103, 97>>, <<1091, 1089, 1090, 1072, 1083, 1086, 1089, 1090, 1100>> >>,  \* 178: "fatiga": "усталость"
     << <<99, 97, 110, 115, 97, 110, 99, 105, 111>>, <<1091, 1089, 1090, 1072, 1083, 1086, 1089, 1090, 1100>> >>,  \* 179: "cansancio": "усталость"
     << <<108, 117, 99, 101, 115>>, <<1092, 1072, 1088, 1099>> >>,  \* 180: "luces": "фары"
     << <<99, 105, 110, 116, 117, 114, 243, 110>>, <<1088, 1077, 1084, 1077, 1085, 1100>> >>,  \* 181: "cinturón": "ремень"
     << <<99, 105, 110, 116, 117, 114, 243, 110, 32, 100, 101, 32, 115, 101, 103, 117, 114, 105, 100, 97, 100>>, <<1088, 1077, 1084, 1077, 1085, 1100, 32, 1073, 1077, 1079, 1086, 1087, 1072, 1089, 1085, 1086, 1089, 1090, 1080>> >>,  \* 182: "cinturón de seguridad": "ремень безопасности"
     << <<99, 97, 115, 99, 111>>, <<1096, 1083, 1077, 1084>> >>,  \* 183: "casco": "шлем"
     << <<100, 111, 99, 117, 109, 101, 110, 116, 111>>, <<1076, 1086, 1082, 1091, 1084, 1077, 1085, 1090>> >>,  \* 184: "documento": "документ"
     << <<100, 111, 99, 117, 109, 101, 110, 116, 97, 99, 105, 243, 110>>, <<1076, 1086, 1082, 1091, 1084, 1077, 1085, 1090, 1099>> >>,  \* 185: "documentación": "документы"
     << <<105, 110, 102, 114, 97, 99, 99, 105, 243, 110>>, <<1085, 1072, 1088, 1091, 1096, 1077, 1085, 1080, 1077>> >>,  \* 186: "infracción": "нарушение"
     << <<109, 117, 108, 116, 97>>, <<1096, 1090, 1088, 1072, 1092>> >>,  \* 187: "multa": "штраф"
     << <<112, 114, 111, 104, 105, 98, 105, 100, 111>>, <<1079, 1072, 1087, 1088, 1077, 1097, 1077, 1085, 1086>> >>,  \* 188: "prohibido": "запрещено"
     << <<111, 98, 108, 105, 103, 97, 116, 111, 114, 105, 111>>, <<1086, 1073, 1103, 1079, 1072, 1090, 1077, 1083, 1100, 1085, 1086>> >>,  \* 189: "obligatorio": "обязательно"
     << <<112, 101, 114, 109, 105, 116, 105, 100, 111>>, <<1088, 1072, 1079, 1088, 1077, 1096, 1077, 1085, 1086>> >>,  \* 190: "permitido": "разрешено"
     << <<114, 101, 115, 112, 111, 110, 115, 97, 98, 105, 108, 105, 100, 97, 100>>, <<1086, 1090, 1074, 1077, 1090, 1089, 1090, 1074, 1077, 1085, 1085, 1086, 1089, 1090, 1100>> >>,  \* 191: "responsabilidad": "ответственность"
     << <<114, 101, 115, 112, 111, 110, 115, 97, 98, 108, 101>>, <<1086, 1090, 1074, 1077, 1090, 1089, 1090, 1074, 1077, 1085, 1085, 1099, 1081>> >>,  \* 192: "responsable": "ответственный"
     << <<110, 111, 114, 109, 97>>, <<1085, 1086, 1088, 1084, 1072>> >>,  \* 193: "norma": "норма"
     << <<110, 111, 114, 109, 97, 115>>, <<1085, 1086, 1088, 1084, 1099>> >>,  \* 194: "normas": "нормы"
     << <<108, 101, 121>>, <<1079, 1072, 1082, 1086, 1085>> >>,  \* 195: "ley": "закон"
     << <<114, 101, 103, 108, 97, 109, 101, 110, 116, 111>>, <<1087, 1088, 1072, 1074, 1080, 1083, 1072>> >>,  \* 196: "reglamento": "правила"
     << <<101, 100, 97, 100>>, <<1074, 1086, 1079, 1088, 1072, 1089, 1090>> >>,  \* 197: "edad": "возраст"
     << <<109, 101, 110, 111, 114>>, <<1085, 1077, 1089, 1086, 1074, 1077, 1088, 1096, 1077, 1085, 1085, 1086, 1083, 1077, 1090, 1085, 1080, 1081>> >>,  \* 198: "menor": "несовершеннолетний"
     << <<109, 101, 110, 111, 114, 101, 115>>, <<1085, 1077, 1089, 1086, 1074, 1077, 1088, 1096, 1077, 1085, 1085, 1086, 1083, 1077, 1090, 1085, 1080, 1077>> >>,  \* 199: "menores": "несовершеннолетние"
     << <<97, 100, 117, 108, 116, 111>>, <<1074, 1079, 1088, 1086, 1089, 1083, 1099, 1081>> >>,  \* 200: "adulto": "взрослый"
     << <<112, 101, 114, 115, 111, 110, 97>>, <<1095, 1077, 1083, 1086, 1074, 1077, 1082>> >>,  \* 201: "persona": "человек"
     << <<112, 101, 114, 115, 111, 110, 97, 115>>, <<1083, 1102, 1076, 1080>> >>,  \* 202: "personas": "люди"
     << <<112, 97, 115, 97, 106, 101, 114, 111>>, <<1087, 1072, 1089, 1089, 1072, 1078, 1080, 1088>> >>,  \* 203: "pasajero": "пассажир"
     << <<112, 97, 115, 97, 106, 101, 114, 111, 115>>, <<1087, 1072, 1089, 1089, 1072, 1078, 1080, 1088, 1099>> >>,  \* 204: "pasajeros": "пассажиры"
     << <<116, 114, 97, 110, 115, 112, 111, 114, 116, 101>>, <<1090, 1088, 1072, 1085, 1089, 1087, 1086, 1088, 1090>> >>,  \* 205: "transporte": "транспорт"
     << <<112, 250, 98, 108, 105, 99, 111>>, <<1086, 1073, 1097, 1077, 1089, 1090, 1074, 1077, 1085, 1085, 1099, 1081>> >>,  \* 206: "público": "общественный"
     << <<112, 114, 105, 118, 97, 100, 111>>, <<1095, 1072, 1089, 1090, 1085, 1099, 1081>> >>,  \* 207: "privado": "частный"
     << <<101, 109, 101, 114, 103, 101, 110, 99, 105, 97>>, <<1095, 1088, 1077, 1079, 1074, 1099, 1095, 1072, 1081, 1085, 1072, 1103, 32, 1089, 1080, 1090, 1091, 1072, 1094, 1080, 1103>> >>,  \* 208: "emergencia": "чрезвычайная ситуация"
     << <<97, 109, 98, 117, 108, 97, 110, 99, 105, 97>>, <<1089, 1082, 1086, 1088, 1072, 1103, 32, 1087, 1086, 1084, 1086, 1097, 1100>> >>,  \* 209: "ambulancia": "скорая помощь"
     << <<98, 111, 109, 98, 101, 114, 111, 115>>, <<1087, 1086, 1078, 1072, 1088, 1085, 1072, 1103>> >>,  \* 210: "bomberos": "пожарная"
     << <<112, 111, 108, 105, 99, 237, 97>>, <<1087, 1086, 1083, 1080, 1094, 1080, 1103>> >>,  \* 211: "policía": "полиция"
     << <<104, 111, 115, 112, 105, 116, 97, 108>>, <<1073, 1086, 1083, 1100, 1085, 1080, 1094, 1072>> >>,  \* 212: "hospital": "больница"
     << <<122, 111, 110, 97>>, <<1079, 1086, 1085, 1072>> >>,  \* 213: "zona": "зона"
     << <<117, 114, 98, 97, 110, 97>>, <<1075, 1086, 1088, 1086, 1076, 1089, 1082, 1072, 1103>> >>,  \* 214: "urbana": "городская"
     << <<114, 117, 114, 97, 108>>, <<1089, 1077, 1083, 1100, 1089, 1082, 1072, 1103>> >>,  \* 215: "rural": "сельская"
     << <<101, 115, 99, 117, 101, 108, 97>>, <<1096, 1082, 1086, 1083, 1072>> >>,  \* 216: "escuela": "школа"
     << <<116, 250, 110, 101, 108>>, <<1090, 1091, 1085, 1085, 1077, 1083, 1100>> >>,  \* 217: "túnel": "туннель"
     << <<112, 117, 101, 110, 116, 101>>, <<1084, 1086, 1089, 1090>> >>,  \* 218: "puente": "мост"
     << <<99, 117, 114, 118, 97>>, <<1087, 1086, 1074, 1086, 1088, 1086, 1090>> >>,  \* 219: "curva": "поворот"
     << <<114, 101, 99, 116, 97>>, <<1087, 1088, 1103, 1084, 1072, 1103>> >>,  \* 220: "recta": "прямая"
     << <<115, 117, 98, 105, 100, 97>>, <<1087, 1086, 1076, 1098, 1077, 1084>> >>,  \* 221: "subida": "подъем"
     << <<98, 97, 106, 97, 100, 97>>, <<1089, 1087, 1091, 1089, 1082>> >>,  \* 222: "bajada": "спуск"
     << <<108, 108, 117, 118, 105, 97>>, <<1076, 1086, 1078, 1076, 1100>> >>,  \* 223: "lluvia": "дождь"
     << <<110, 105, 101, 118, 101>>, <<1089, 1085, 1077, 1075>> >>,  \* 224: "nieve": "снег"
     << <<110, 105, 101, 98, 108, 97>>, <<1090, 1091, 1084, 1072, 1085>> >>,  \* 225: "niebla": "туман"
     << <<118, 105, 101, 110, 116, 111>>, <<1074, 1077, 1090, 1077, 1088>> >>,  \* 226: "viento": "ветер"
     << <<100, 237, 97>>, <<1076, 1077, 1085, 1100>> >>,  \* 227: "día": "день"
     << <<110, 111, 99, 104, 101>>, <<1085, 1086, 1095, 1100>> >>,  \* 228: "noche": "ночь"
     << <<99, 108, 105, 109, 97>>, <<1087, 1086, 1075, 1086, 1076, 1072>> >>,  \* 229: "clima": "погода"
     << <<118, 105, 115, 105, 98, 105, 108, 105, 100, 97, 100>>, <<1074, 1080, 1076, 1080, 1084, 1086, 1089, 1090, 1100>> >>,  \* 230: "visibilidad": "видимость"
     << <<101, 115, 112, 101, 106, 111>>, <<1079, 1077, 1088, 1082, 1072, 1083, 1086>> >>,  \* 231: "espejo": "зеркало"
     << <<114, 101, 116, 114, 111, 118, 105, 115, 111, 114>>, <<1079, 1077, 1088, 1082, 1072, 1083, 1086, 32, 1079, 1072, 1076, 1085, 1077, 1075, 1086, 32, 1074, 1080, 1076, 1072>> >>,  \* 232: "retrovisor": "зеркало заднего вида"
     << <<109, 111, 116, 111, 114>>, <<1076, 1074, 1080, 1075, 1072, 1090, 1077, 1083, 1100>> >>,  \* 233: "motor": "двигатель"
     << <<102, 114, 101, 110, 111, 115>>, <<1090, 1086, 1088, 1084, 1086, 1079, 1072>> >>,  \* 234: "frenos": "тормоза"
     << <<110, 101, 117, 109, 225, 116, 105, 99, 111>>, <<1096, 1080, 1085, 1072>> >>,  \* 235: "neumático": "шина"
     << <<110, 101, 117, 109, 225, 116, 105, 99, 111, 115>>, <<1096, 1080, 1085, 1099>> >>,  \* 236: "neumáticos": "шины"
     << <<99, 111, 109, 98, 117, 115, 116, 105, 98, 108, 101>>, <<1090, 1086, 1087, 1083, 1080, 1074, 1086>> >>,  \* 237: "combustible": "топливо"
     << <<97, 99, 101, 105, 116, 101>>, <<1084, 1072, 1089, 1083, 1086>> >>,  \* 238: "aceite": "масло"
     << <<98, 97, 116, 101, 114, 237, 97>>, <<1072, 1082, 1082, 1091, 1084, 1091, 1083, 1103, 1090, 1086, 1088>> >>,  \* 239: "batería": "аккумулятор"
     << <<109, 97, 110, 116, 101, 110, 105, 109, 105, 101, 110, 116, 111>>, <<1090, 1077, 1093, 1085, 1080, 1095, 1077, 1089, 1082, 1086, 1077, 32, 1086, 1073, 1089, 1083, 1091, 1078, 1080, 1074, 1072, 1085, 1080, 1077>> >>,  \* 240: "mantenimiento": "техническое обслуживание"
     << <<114, 101, 112, 97, 114, 97, 99, 105, 243, 110>>, <<1088, 1077, 1084, 1086, 1085, 1090>> >>,  \* 241: "reparación": "ремонт"
     << <<118, 101, 114, 105, 102, 105, 99, 97, 99, 105, 243, 110>>, <<1087, 1088, 1086, 1074, 1077, 1088, 1082, 1072>> >>,  \* 242: "verificación": "проверка"
     << <<105, 110, 115, 112, 101, 99, 99, 105, 243, 110>>, <<1086, 1089, 1084, 1086, 1090, 1088>> >>,  \* 243: "inspección": "осмотр"
     << <<101, 108>>, <<>> >>,  \* 246: "el": ""
     << <<108, 97>>, <<>> >>,  \* 247: "la": ""
     << <<108, 111, 115>>, <<>> >>,  \* 248: "los": ""
     << <<108, 97, 115>>, <<>> >>,  \* 249: "las": ""
     << <<117, 110>>, <<>> >>,  \* 250: "un": ""
     << <<117, 110, 97>>, <<>> >>,  \* 251: "una": ""
     << <<100, 101>>, <<>> >>,  \* 252: "de": ""
     << <<100, 101, 108>>, <<>> >>,  \* 253: "del": ""
     << <<113, 117, 101>>, <<1095, 1090, 1086>> >>,  \* 254: "que": "что"
     << <<101, 110>>, <<1074>> >>,  \* 255: "en": "в"
     << <<99, 111, 110>>, <<1089>> >>,  \* 256: "con": "с"
     << <<112, 111, 114>>, <<1087, 1086>> >>,  \* 257: "por": "по"
     << <<112, 97, 114, 97>>, <<1076, 1083, 1103>> >>,  \* 258: "para": "для"
     << <<97, 108>>, <<>> >>,  \* 259: "al": ""
     << <<115, 101>>, <<>> >>,  \* 260: "se": ""
     << <<99, 111, 109, 111>>, <<1082, 1072, 1082>> >>,  \* 261: "como": "как"
     << <<109, 225, 115>>, <<1073, 1086, 1083, 1077, 1077>> >>,  \* 262: "más": "более"
     << <<109, 101, 110, 111, 115>>, <<1084, 1077, 1085, 1077, 1077>> >>,  \* 263: "menos": "менее"
     << <<116, 111, 100, 111>>, <<1074, 1077, 1089, 1100>> >>,  \* 264: "todo": "весь"
     << <<116, 111, 100, 97>>, <<1074, 1089, 1103>> >>,  \* 265: "toda": "вся"
     << <<116, 111, 100, 111, 115>>, <<1074, 1089, 1077>> >>,  \* 266: "todos": "все"
     << <<116, 111, 100, 97, 115>>, <<1074, 1089, 1077>> >>,  \* 267: "todas": "все"
     << <<111, 116, 114, 111>>, <<1076, 1088, 1091, 1075, 1086, 1081>> >>,  \* 268: "otro": "другой"
     << <<111, 116, 114, 97>>, <<1076, 1088, 1091, 1075, 1072, 1103>> >>,  \* 269: "otra": "другая"
     << <<111, 116, 114, 111, 115>>, <<1076, 1088, 1091, 1075, 1080, 1077>> >>,  \* 270: "otros": "другие"
     << <<111, 116, 114, 97, 115>>, <<1076, 1088, 1091, 1075, 1080, 1077>> >>,  \* 271: "otras": "другие"
     << <<109, 105, 115, 109, 111>>, <<1090, 1086, 1090, 32, 1078, 1077>> >>,  \* 272: "mismo": "тот же"
     << <<109, 105, 115, 109, 97>>, <<1090, 1072, 32, 1078, 1077>> >>,  \* 273: "misma": "та же"
     << <<109, 105, 115, 109, 111, 115>>, <<1090, 1077, 32, 1078, 1077>> >>,  \* 274: "mismos": "те же"
     << <<109, 105, 115, 109, 97, 115>>, <<1090, 1077, 32, 1078, 1077>> >>,  \* 275: "mismas": "те же"
     << <<101, 115, 116, 101>>, <<1101, 1090, 1086, 1090>> >>,  \* 276: "este": "этот"
     << <<101, 115, 116, 97>>, <<1101, 1090, 1072>> >>,  \* 277: "esta": "эта"
     << <<101, 115, 116, 111, 115>>, <<1101, 1090, 1080>> >>,  \* 278: "estos": "эти"
     << <<101, 115, 116, 97, 115>>, <<1101, 1090, 1080>> >>,  \* 279: "estas": "эти"
     << <<101, 115, 101>>, <<1090, 1086, 1090>> >>,  \* 280: "ese": "тот"
     << <<101, 115, 97>>, <<1090, 1072>> >>,  \* 281: "esa": "та"
     << <<101, 115, 111, 115>>, <<1090, 1077>> >>,  \* 282: "esos": "те"
     << <<101, 115, 97, 115>>, <<1090, 1077>> >>,  \* 283: "esas": "те"
     << <<99, 117, 97, 110, 100, 111>>, <<1082, 1086, 1075, 1076, 1072>> >>,  \* 284: "cuando": "когда"
     << <<100, 111, 110, 100, 101>>, <<1075, 1076, 1077>> >>,  \* 285: "donde": "где"
     << <<99, 111, 109, 111>>, <<1082, 1072, 1082>> >>,  \* 286: "como": "как"
     << <<112, 111, 114, 113, 117, 101>>, <<1087, 1086, 1090, 1086, 1084, 1091, 32, 1095, 1090, 1086>> >>,  \* 287: "porque": "потому что"
     << <<112, 101, 114, 111>>, <<1085, 1086>> >>,  \* 288: "pero": "но"
     << <<115, 105, 110>>, <<1073, 1077, 1079>> >>,  \* 289: "sin": "без"
     << <<100, 101, 115, 100, 101>>, <<1089>> >>,  \* 290: "desde": "с"
     << <<104, 97, 115, 116, 97>>, <<1076, 1086>> >>,  \* 291: "hasta": "до"
     << <<101, 110, 116, 114, 101>>, <<1084, 1077, 1078, 1076, 1091>> >>,  \* 292: "entre": "между"
     << <<115, 111, 98, 114, 101>>, <<1085, 1072>> >>,  \* 293: "sobre": "на"
     << <<98, 97, 106, 111>>, <<1087, 1086, 1076>> >>,  \* 294: "bajo": "под"
     << <<97, 110, 116, 101>>, <<1087, 1077, 1088, 1077, 1076>> >>,  \* 295: "ante": "перед"
     << <<116, 114, 97, 115>>, <<1079, 1072>> >>,  \* 296: "tras": "за"
     << <<100, 117, 114, 97, 110, 116, 101>>, <<1074, 1086, 32, 1074, 1088, 1077, 1084, 1103>> >>,  \* 297: "durante": "во время"
     << <<109, 101, 100, 105, 97, 110, 116, 101>>, <<1087, 1086, 1089, 1088, 1077, 1076, 1089, 1090, 1074, 1086, 1084>> >>,  \* 298: "mediante": "посредством"
     << <<115, 101, 103, 250, 110>>, <<1089, 1086, 1075, 1083, 1072, 1089, 1085, 1086>> >>,  \* 299: "según": "согласно"
     << <<101, 120, 99, 101, 112, 116, 111>>, <<1082, 1088, 1086, 1084, 1077>> >>,  \* 300: "excepto": "кроме"
     << <<115, 97, 108, 118, 111>>, <<1082, 1088, 1086, 1084, 1077>> >>,  \* 301: "salvo": "кроме"
     << <<109, 101, 110, 111, 115>>, <<1082, 1088, 1086, 1084, 1077>> >>,  \* 302: "menos": "кроме"
     << <<105, 110, 99, 108, 117, 115, 111>>, <<1076, 1072, 1078, 1077>> >>,  \* 303: "incluso": "даже"
     << <<116, 97, 109, 98, 105, 233, 110>>, <<1090, 1072, 1082, 1078, 1077>> >>,  \* 304: "también": "также"
     << <<116, 97, 109, 112, 111, 99, 111>>, <<1090, 1086, 1078, 1077, 32, 1085, 1077>> >>,  \* 305: "tampoco": "тоже не"
     << <<115, 105, 101, 109, 112, 114, 101>>, <<1074, 1089, 1077, 1075, 1076, 1072>> >>,  \* 306: "siempre": "всегда"
     << <<110, 117, 110, 99, 97>>, <<1085, 1080, 1082, 1086, 1075, 1076, 1072>> >>,  \* 307: "nunca": "никогда"
     << <<106, 97, 109, 225, 115>>, <<1085, 1080, 1082, 1086, 1075, 1076, 1072>> >>,  \* 308: "jamás": "никогда"
     << <<121, 97>>, <<1091, 1078, 1077>> >>,  \* 309: "ya": "уже"
     << <<97, 250, 110>>, <<1077, 1097, 1105>> >>,  \* 310: "aún": "ещё"
     << <<116, 111, 100, 97, 118, 237, 97>>, <<1077, 1097, 1105>> >>,  \* 311: "todavía": "ещё"
     << <<97, 112, 101, 110, 97, 115>>, <<1077, 1076, 1074, 1072>> >>,  \* 312: "apenas": "едва"
     << <<115, 111, 108, 111>>, <<1090, 1086, 1083, 1100, 1082, 1086>> >>,  \* 313: "solo": "только"
     << <<115, 243, 108, 111>>, <<1090, 1086, 1083, 1100, 1082, 1086>> >>,  \* 314: "sólo": "только"
     << <<115, 111, 108, 97, 109, 101, 110, 116, 101>>, <<1090, 1086, 1083, 1100, 1082, 1086>> >>,  \* 315: "solamente": "только"
     << <<250, 110, 105, 99, 97, 109, 101, 110, 116, 101>>, <<1080, 1089, 1082, 1083, 1102, 1095, 1080, 1090, 1077, 1083, 1100, 1085, 1086>> >> >>  \* 316: "únicamente": "исключительно"

\* What the dict literal evaluates to: one item per distinct key, at the
\* position of the key's first occurrence, with the value of its last one.
DictItems(literal) ==
    LET First(n) == \A m \in 1..(n - 1) : literal[m][1] # literal[n][1]
        LastOf(n) == CHOOSE m \in n..Len(literal) :
                        /\ literal[m][1] = literal[n][1]
                        /\ \A q \in (m + 1)..Len(literal) : literal[q][1] # literal[n][1]
        firsts == SelectSeq([n \in 1..Len(literal) |-> n], First)
    IN  [n \in 1..Len(firsts) |-> <<literal[firsts[n]][1], literal[LastOf(firsts[n])][2]>>]

COMPREHENSIVE_TRANSLATIONS == DictItems(DictLiteral)

\* len(x[0]) of the longest key
LongestKeyLength(items) ==
    CHOOSE len \in {Len(items[n][1]) : n \in 1..Len(items)} :
        \A n \in 1..Len(items) : Len(items[n][1]) <= len

\* the sort without reverse=True: stable, shortest key first
RECURSIVE SortedShortestFirst(_, _)
SortedShortestFirst(items, len) ==
    IF len < 1 THEN <<>>
    ELSE LET HasLen(e) == Len(e[1]) = len
         IN  SortedShortestFirst(items, len - 1) \o SelectSeq(items, HasLen)

\* sorted(items, key=lambda x: len(x[0]), reverse=True): stable, the keys of
\* length len first, then the shorter ones
RECURSIVE SortedByKeyLength(_, _)
SortedByKeyLength(items, len) ==
    IF len < 1 THEN <<>>
    ELSE LET HasLen(e) == Len(e[1]) = len
         IN  SelectSeq(items, HasLen) \o SortedByKeyLength(items, len - 1)

\* the loop over the dictionary as written, without the sort
UnsortedTranslations == COMPREHENSIVE_TRANSLATIONS

sorted_translations ==
    SortedByKeyLength(COMPREHENSIVE_TRANSLATIONS, LongestKeyLength(COMPREHENSIVE_TRANSLATIONS))

\* one iteration of the for loop of comprehensive_translate
ApplyEntry(result, entry) ==
    IF Contains(result, entry[1]) THEN Replace(result, entry[1], entry[2]) ELSE result

\* the for loop of comprehensive_translate over entries lo..hi, in order
RECURSIVE TranslateRange(_, _, _)
TranslateRange(result, lo, hi) ==
    IF lo > hi THEN result
    ELSE IF lo = hi THEN ApplyEntry(result, sorted_translations[lo])
    ELSE LET mid == (lo + hi) \div 2
             left == TranslateRange(result, lo, mid)
         IN  \* the test makes the evaluator finish entries lo..mid before mid+1..hi
             IF Len(left) >= 0 THEN TranslateRange(left, mid + 1, hi) ELSE left

comprehensive_translate(text) == TranslateRange(text, 1, Len(sorted_translations))

(***************************************************************************)
(* Text constants of the source and the sample lines the inputs are built  *)
(* from.                                                                   *)
(***************************************************************************)

Verdadero == <<86, 101, 114, 100, 97, 100, 101, 114, 111>>  \* 'Verdadero'
Falso == <<70, 97, 108, 115, 111>>  \* 'Falso'
BULLET_TRUE == <<8226, 32, 86, 101, 114, 100, 97, 100, 101, 114, 111>>  \* '• Verdadero'
BULLET_FALSE == <<8226, 32, 70, 97, 108, 115, 111>>  \* '• Falso'
TITLE_TEXT == <<67, 85, 69, 83, 84, 73, 79, 78, 65, 82, 73, 79, 32, 66, 73, 76, 73, 78, 71, 220, 69, 32, 69, 83, 80, 65, 209, 79, 76, 45, 82, 85, 83, 79, 60, 98, 114, 47, 62, 69, 83, 80, 65, 209, 79, 76, 45, 1056, 1059, 1057, 1057, 1050, 1048, 1049, 32, 1042, 1054, 1055, 1056, 1054, 1057, 1053, 1048, 1050>>  \* "CUESTIONARIO BILINGÜE ESPAÑOL-RUSO<br/>ESPAÑOL-РУССКИЙ ВОПРОСНИК"
SUBTITLE_TEXT == <<80, 114, 101, 103, 117, 110, 116, 97, 115, 32, 100, 101, 32, 69, 120, 97, 109, 101, 110, 32, 84, 101, 243, 114, 105, 99, 111, 32, 45, 32, 76, 105, 99, 101, 110, 99, 105, 97, 32, 100, 101, 32, 67, 111, 110, 100, 117, 99, 105, 114, 60, 98, 114, 47, 62, 1042, 1086, 1087, 1088, 1086, 1089, 1099, 32, 1090, 1077, 1086, 1088, 1077, 1090, 1080, 1095, 1077, 1089, 1082, 1086, 1075, 1086, 32, 1101, 1082, 1079, 1072, 1084, 1077, 1085, 1072, 32, 45, 32, 1042, 1086, 1076, 1080, 1090, 1077, 1083, 1100, 1089, 1082, 1080, 1077, 32, 1087, 1088, 1072, 1074, 1072>>  \* "Preguntas de Examen Teórico - Licencia de Conducir<br/>Вопросы теоретического экзамена - Водительские права"
B_OPEN == <<60, 98, 62>>  \* "<b>"
B_CLOSE == <<60, 47, 98, 62>>  \* "</b>"
DOT_SPACE == <<46, 32>>  \* ". "

\* the skip list of the boilerplate filter
SKIP_SUBSTRINGS ==
    { <<98, 97, 116, 101, 114, 237, 97, 32, 100, 101, 32, 112, 114, 101, 103, 117, 110, 116, 97, 115>>,  \* 'batería de preguntas'
      <<112, 114, 101, 103, 117, 110, 116, 97, 115, 32, 101, 120, 97, 109, 101, 110>>,  \* 'preguntas examen'
      <<108, 105, 99, 101, 110, 99, 105, 97, 32, 100, 101, 32, 99, 111, 110, 100, 117, 99, 105, 114>>,  \* 'licencia de conducir'
      <<97, 110, 101, 120, 111, 32, 105, 58>>,  \* 'anexo i:'
      <<112, 114, 101, 103, 117, 110, 116, 97, 115, 32, 103, 101, 110, 101, 114, 97, 108, 101, 115>>,  \* 'preguntas generales'
      <<97, 108, 103, 117, 110, 97, 115, 32, 100, 101, 32, 108, 97, 115, 32, 112, 114, 101, 103, 117, 110, 116, 97, 115>> }  \* 'algunas de las preguntas'

\* sample lines of an extracted page
QUESTION_1 == <<191, 69, 115, 32, 111, 98, 108, 105, 103, 97, 116, 111, 114, 105, 111, 32, 108, 108, 101, 118, 97, 114, 32, 99, 97, 115, 99, 111, 63>>  \* "¿Es obligatorio llevar casco?"
QUESTION_2 == <<191, 79, 116, 114, 97, 32, 112, 114, 101, 103, 117, 110, 116, 97, 32, 108, 97, 114, 103, 97, 32, 100, 101, 32, 112, 114, 117, 101, 98, 97, 32, 97, 113, 117, 237, 63>>  \* "¿Otra pregunta larga de prueba aquí?"
SHORT_QUESTION == <<191, 69, 115, 32, 97, 115, 237, 63>>  \* "¿Es así?"
OPTION_A == <<65, 46, 32, 83, 237>>  \* "A. Sí"
OPTION_B == <<66, 46, 32, 78, 111>>  \* "B. No"
OPTION_QUESTION == <<65, 46, 32, 191, 69, 115, 32, 111, 98, 108, 105, 103, 97, 116, 111, 114, 105, 111, 32, 101, 108, 32, 99, 97, 115, 99, 111, 63>>  \* "A. ¿Es obligatorio el casco?"
PLAIN_BOTH == <<86, 101, 114, 100, 97, 100, 101, 114, 111, 32, 111, 32, 70, 97, 108, 115, 111>>  \* "Verdadero o Falso"
SECTION_HEADER == <<83, 69, 209, 65, 76, 69, 83, 32, 68, 69, 32, 84, 82, 193, 78, 83, 73, 84, 79>>  \* "SEÑALES DE TRÁNSITO"
BOILERPLATE_UPPER == <<66, 65, 84, 69, 82, 205, 65, 32, 68, 69, 32, 80, 82, 69, 71, 85, 78, 84, 65, 83>>  \* "BATERÍA DE PREGUNTAS"
BOILERPLATE_QUESTION == <<191, 84, 105, 101, 110, 101, 32, 108, 105, 99, 101, 110, 99, 105, 97, 32, 100, 101, 32, 99, 111, 110, 100, 117, 99, 105, 114, 63>>  \* "¿Tiene licencia de conducir?"
OTHER_LINE == <<32, 32, 73, 110, 102, 111, 114, 109, 97, 99, 105, 243, 110, 32, 97, 100, 105, 99, 105, 111, 110, 97, 108, 32>>  \* "  Información adicional "
BLANK_LINE == <<32, 32>>  \* "  "

(***************************************************************************)
(* The line classifiers of extract_questions_from_pdf.                     *)
(***************************************************************************)

MIN_QUESTION_LENGTH == 20
MIN_HEADER_LENGTH == 10
LOOKAHEAD_LIMIT == 10
\* option_count <= 5 in place of option_count < 5
MaxOptionsOffByOne == 5 + 1

MAX_OPTIONS == 5
FALLBACK_LIMIT == 5

\* line.endswith('?') and len(line) > 20
IsQuestion(line) == EndsWithQuestionMark(line) /\ Len(line) > MIN_QUESTION_LENGTH

\* re.match(r'^[ABC]\.\s+', line)
IsLetteredOption(line) ==
    /\ Len(line) >= 3
    /\ line[1] \in {65, 66, 67}
    /\ line[2] = 46
    /\ line[3] \in Whitespace

\* re.match(r'^•\s*(Verdadero|Falso)', line)
IsBooleanOption(line) ==
    /\ Len(line) >= 1
    /\ line[1] = 8226
    /\ LET rest == lstrip(Tail(line))
       IN  MatchesAt(rest, Verdadero, 1) \/ MatchesAt(rest, Falso, 1)

\* line.isupper() and len(line) > 10
IsSectionHeader(line) == isupper(line) /\ Len(line) > MIN_HEADER_LENGTH

\* the filter without .lower()
IsBoilerplateCaseSensitive(line) == \E skip \in SKIP_SUBSTRINGS : Contains(line, skip)

\* any(skip in line.lower() for skip in [...])
IsBoilerplate(line) == \E skip \in SKIP_SUBSTRINGS : Contains(lower(line), skip)

\* s.split('\n'): the pieces between consecutive newlines
split(s) ==
    LET IsNewline(n) == s[n] = 10
        newlines == SelectSeq([n \in 1..Len(s) |-> n], IsNewline)
        pieces == Len(newlines) + 1
    IN  [m \in 1..pieces |->
            SubSeq(s,
                   IF m = 1 THEN 1 ELSE newlines[m - 1] + 1,
                   IF m = pieces THEN Len(s) ELSE newlines[m] - 1)]

\* [line.strip() for line in full_text.split('\n') if line.strip()]
CleanLines(s) ==
    LET parts == split(s)
        NonEmpty(line) == strip(line) # <<>>
        kept == SelectSeq(parts, NonEmpty)
    IN  [n \in 1..Len(kept) |-> strip(kept[n])]

\* the filter loop: the lines that hold no boilerplate substring, in order
FilterLines(ls) ==
    LET Keep(line) == ~IsBoilerplate(line)
    IN  SelectSeq(ls, Keep)

\* The look-ahead loop for options that follows a question at index i.
\* taken lists the indices of the lines appended to options.
RECURSIVE LookAhead(_, _, _, _, _, _)
LookAhead(fl, i, j, options, option_count, taken) ==
    IF ~(j < Len(fl) /\ j < i + LOOKAHEAD_LIMIT /\ option_count < MAX_OPTIONS)
    THEN [j |-> j, options |-> options, taken |-> taken]
    ELSE LET next_line == At(fl, j)
         IN  IF IsLetteredOption(next_line)
             THEN LookAhead(fl, i, j + 1, Append(options, next_line), option_count + 1, Append(taken, j))
             ELSE IF IsBooleanOption(next_line)
             THEN LookAhead(fl, i, j + 1, Append(options, next_line), option_count + 1, Append(taken, j))
             ELSE IF IsQuestion(next_line)
             THEN [j |-> j, options |-> options, taken |-> taken]
             ELSE IF IsSectionHeader(next_line)
             THEN [j |-> j, options |-> options, taken |-> taken]
             ELSE LookAhead(fl, i, j + 1, options, option_count, taken)

\* The special handling loop for True/False questions.
RECURSIVE FallbackScan(_, _, _, _, _)
FallbackScan(fl, i, j, verdadero_found, falso_found) ==
    IF ~(j < Len(fl) /\ j < i + FALLBACK_LIMIT)
    THEN [j |-> j, verdadero_found |-> verdadero_found, falso_found |-> falso_found]
    ELSE FallbackScan(fl, i, j + 1,
                      verdadero_found \/ Contains(At(fl, j), Verdadero),
                      falso_found \/ Contains(At(fl, j), Falso))

\* the fallback with "or" in place of "and"
ProcessQuestionEitherWord(fl, i) ==
    LET la == LookAhead(fl, i, i + 1, <<>>, 0, <<>>)
        fb == FallbackScan(fl, i, i + 1, FALSE, FALSE)
    IN  IF Len(la.options) = 0
        THEN [j |-> fb.j,
              options |-> IF fb.verdadero_found \/ fb.falso_found
                          THEN <<BULLET_TRUE, BULLET_FALSE>> ELSE <<>>,
              taken |-> <<>>]
        ELSE la

\* the fallback with the two words as found, without the bullets
ProcessQuestionPlainWords(fl, i) ==
    LET la == LookAhead(fl, i, i + 1, <<>>, 0, <<>>)
        fb == FallbackScan(fl, i, i + 1, FALSE, FALSE)
    IN  IF Len(la.options) = 0
        THEN [j |-> fb.j,
              options |-> IF fb.verdadero_found /\ fb.falso_found
                          THEN <<Verdadero, Falso>> ELSE <<>>,
              taken |-> <<>>]
        ELSE la

\* The body of "if line.endswith('?') and len(line) > 20" up to "if options":
\* the options found for the question at index i and the final value of j.
ProcessQuestion(fl, i) ==
    LET la == LookAhead(fl, i, i + 1, <<>>, 0, <<>>)
        fb == FallbackScan(fl, i, i + 1, FALSE, FALSE)
    IN  IF Len(la.options) = 0
        THEN [j |-> fb.j,
              options |-> IF fb.verdadero_found /\ fb.falso_found
                          THEN <<BULLET_TRUE, BULLET_FALSE>> ELSE <<>>,
              taken |-> <<>>]
        ELSE la

(***************************************************************************)
(* The page lines the inputs are drawn from.                                *)
(***************************************************************************)

MaxLines == 3
MaxMidLines == 5
MaxWordLines == 5
MaxTailLines == 10

Catalog ==
    { QUESTION_1, QUESTION_2, SHORT_QUESTION, OPTION_A, OPTION_B, OPTION_QUESTION,
      BULLET_TRUE, BULLET_FALSE, Verdadero, Falso, PLAIN_BOTH, SECTION_HEADER,
      BOILERPLATE_UPPER, BOILERPLATE_QUESTION, OTHER_LINE, BLANK_LINE }

MidCatalog == { QUESTION_1, OPTION_A, OTHER_LINE, Verdadero, Falso }

TailCatalog == { OPTION_A, OTHER_LINE }

WordCatalog == { OTHER_LINE, Verdadero, Falso }

SeqsUpTo(S, n) == UNION { [1..m -> S] : m \in 0..n }

\* the page lines the extractor is run on
PageLines ==
    SeqsUpTo(Catalog, MaxLines)
    \cup SeqsUpTo(MidCatalog, MaxMidLines)
    \cup { <<QUESTION_1>> \o tail : tail \in SeqsUpTo(TailCatalog, MaxTailLines) }
    \cup { <<QUESTION_1>> \o tail : tail \in SeqsUpTo(WordCatalog, MaxWordLines) }

MaxFairLines == 4

\* a question followed by MaxTailLines lines: options, then other lines, then
\* options again
LongTails ==
    { [n \in 1..MaxTailLines |-> IF n <= a \/ n > b THEN OPTION_A ELSE OTHER_LINE] :
          a \in 0..1, b \in 1..MaxTailLines }

\* the page lines the termination of the scan is checked on
FairPageLines ==
    SeqsUpTo(MidCatalog, MaxFairLines)
    \cup { <<QUESTION_1>> \o tail : tail \in LongTails }

MaxMainLines == 4

MainCatalog == { QUESTION_1, QUESTION_2, OPTION_A, OPTION_B, Verdadero, Falso }

\* the page lines main() is run on
MainPageLines == SeqsUpTo(MainCatalog, MaxMainLines)

(***************************************************************************)
(* The building blocks of the story of create_bilingual_pdf.               *)
(***************************************************************************)

Paragraph(t, style) == [type |-> "Paragraph", text |-> t, style |-> style]

Spacer(width, height) == [type |-> "Spacer", width |-> width, height |-> height]

\* the block with the translated question ahead of the Spanish options
QuestionBlockTranslationFirst(q) ==
    LET question_text == str(q.number) \o DOT_SPACE \o q.question
        russian_question == comprehensive_translate(q.question)
    IN  <<Paragraph(B_OPEN \o question_text \o B_CLOSE, "question_style")>>
        \o <<Paragraph(B_OPEN \o str(q.number) \o DOT_SPACE \o russian_question \o B_CLOSE,
                       "russian_question_style")>>
        \o [n \in 1..Len(q.options) |-> Paragraph(q.options[n], "answer_style")]
        \o [n \in 1..Len(q.options) |->
               Paragraph(comprehensive_translate(q.options[n]), "russian_answer_style")]
        \o <<Spacer(1, 12)>>

\* the flowables appended to the story for one question record
QuestionBlock(q) ==
    LET question_text == str(q.number) \o DOT_SPACE \o q.question
        russian_question == comprehensive_translate(q.question)
    IN  <<Paragraph(B_OPEN \o question_text \o B_CLOSE, "question_style")>>
        \o [n \in 1..Len(q.options) |-> Paragraph(q.options[n], "answer_style")]
        \o <<Paragraph(B_OPEN \o str(q.number) \o DOT_SPACE \o russian_question \o B_CLOSE,
                       "russian_question_style")>>
        \o [n \in 1..Len(q.options) |->
               Paragraph(comprehensive_translate(q.options[n]), "russian_answer_style")]
        \o <<Spacer(1, 12)>>

(***************************************************************************)
(* State.                                                                  *)
(***************************************************************************)

VARIABLES
    pc,              \* position of main(): extraction, rendering, done
    full_text,       \* the text of all pages, each followed by a newline
    lines,           \* the stripped non-empty lines
    filtered_lines,  \* lines without boilerplate
    i,               \* the cursor of the scan (0-based)
    question_num,    \* the number the next record gets
    questions,       \* the records emitted so far
    taken,           \* per record, the indices of the lines appended as options
    story,           \* the flowables handed to the layout engine
    qi,              \* the index of the record the renderer is at (0-based)
    built,           \* doc.build(story) has been called
    text,            \* the argument of a comprehensive_translate call
    result,          \* its result variable
    k,               \* the position of its for loop in sorted_translations
    tpc              \* position of the comprehensive_translate call

extractor_vars == <<full_text, lines, filtered_lines, i, question_num, questions, taken>>
renderer_vars == <<story, qi, built>>
translator_vars == <<text, result, k, tpc>>
vars == <<pc, extractor_vars, renderer_vars, translator_vars>>

(***************************************************************************)
(* Inputs.                                                                 *)
(***************************************************************************)

\* full_text after "for page in pdf_reader.pages: full_text += ... + '\n'"
RECURSIVE JoinLines(_)
JoinLines(ls) == IF ls = <<>> THEN <<>> ELSE Head(ls) \o <<10>> \o JoinLines(Tail(ls))

TranslatorIdle ==
    /\ text = <<>>
    /\ result = <<>>
    /\ k = 0
    /\ tpc = "idle"

\* main() has not read the input yet
Init ==
    /\ pc = "read"
    /\ full_text = <<>>
    /\ lines = <<>>
    /\ filtered_lines = <<>>
    /\ i = 0
    /\ question_num = 1
    /\ questions = <<>>
    /\ taken = <<>>
    /\ story = <<>>
    /\ qi = 0
    /\ built = FALSE
    /\ TranslatorIdle

(***************************************************************************)
(* extract_questions_from_pdf                                              *)
(***************************************************************************)

\* lines 337-343: the text of every page, each followed by a newline
ReadPages(inputs) ==
    /\ pc = "read"
    /\ \E ls \in inputs : full_text' = JoinLines(ls)
    /\ pc' = "clean"
    /\ UNCHANGED <<lines, filtered_lines, i, question_num, questions, taken>>
    /\ UNCHANGED <<renderer_vars, translator_vars>>

\* line 346
SplitAndClean ==
    /\ pc = "clean"
    /\ lines' = CleanLines(full_text)
    /\ pc' = "filter"
    /\ UNCHANGED <<full_text, filtered_lines, i, question_num, questions, taken>>
    /\ UNCHANGED <<renderer_vars, translator_vars>>

\* lines 349-359
FilterBoilerplate ==
    /\ pc = "filter"
    /\ filtered_lines' = FilterLines(lines)
    /\ i' = 0
    /\ question_num' = 1
    /\ pc' = "scan"
    /\ UNCHANGED <<full_text, lines, questions, taken>>
    /\ UNCHANGED <<renderer_vars, translator_vars>>

\* one iteration of the while loop: a question for which options were found
ScanEmit ==
    /\ pc = "scan"
    /\ i < Len(filtered_lines)
    /\ IsQuestion(At(filtered_lines, i))
    /\ LET found == ProcessQuestion(filtered_lines, i)
       IN  /\ found.options # <<>>
           /\ questions' = Append(questions, [number |-> question_num,
                                              question |-> At(filtered_lines, i),
                                              options |-> found.options])
           /\ taken' = Append(taken, found.taken)
           /\ question_num' = question_num + 1
           /\ i' = found.j
    /\ UNCHANGED <<pc, full_text, lines, filtered_lines>>
    /\ UNCHANGED <<renderer_vars, translator_vars>>

\* the iteration with "question_num += 1" outside "if options"
ScanNoOptionsCounting ==
    /\ pc = "scan"
    /\ i < Len(filtered_lines)
    /\ IsQuestion(At(filtered_lines, i))
    /\ ProcessQuestion(filtered_lines, i).options = <<>>
    /\ i' = i + 1
    /\ question_num' = question_num + 1
    /\ UNCHANGED <<pc, full_text, lines, filtered_lines, questions, taken>>
    /\ UNCHANGED <<renderer_vars, translator_vars>>

\* one iteration of the while loop: a question for which no options were found
ScanNoOptions ==
    /\ pc = "scan"
    /\ i < Len(filtered_lines)
    /\ IsQuestion(At(filtered_lines, i))
    /\ ProcessQuestion(filtered_lines, i).options = <<>>
    /\ i' = i + 1
    /\ UNCHANGED <<pc, full_text, lines, filtered_lines, question_num, questions, taken>>
    /\ UNCHANGED <<renderer_vars, translator_vars>>

\* the iteration without the final "else: i += 1"
ScanOtherStuck ==
    /\ pc = "scan"
    /\ i < Len(filtered_lines)
    /\ ~IsQuestion(At(filtered_lines, i))
    /\ i' = i
    /\ UNCHANGED <<pc, full_text, lines, filtered_lines, question_num, questions, taken>>
    /\ UNCHANGED <<renderer_vars, translator_vars>>

\* one iteration of the while loop: a line that is not a question
ScanOther ==
    /\ pc = "scan"
    /\ i < Len(filtered_lines)
    /\ ~IsQuestion(At(filtered_lines, i))
    /\ i' = i + 1
    /\ UNCHANGED <<pc, full_text, lines, filtered_lines, question_num, questions, taken>>
    /\ UNCHANGED <<renderer_vars, translator_vars>>

\* the while loop ends; return questions
ScanReturn ==
    /\ pc = "scan"
    /\ ~(i < Len(filtered_lines))
    /\ pc' = "title"
    /\ UNCHANGED <<extractor_vars, renderer_vars, translator_vars>>

(***************************************************************************)
(* create_bilingual_pdf                                                    *)
(***************************************************************************)

\* lines 432-500: the story starts with title, subtitle and spacer
RenderTitle ==
    /\ pc = "title"
    /\ story' = << Paragraph(TITLE_TEXT, "title_style"),
                   Paragraph(SUBTITLE_TEXT, "subtitle_style"),
                   Spacer(1, 15) >>
    /\ qi' = 0
    /\ pc' = "render"
    /\ UNCHANGED <<built, extractor_vars, translator_vars>>

\* one iteration of "for i, q in enumerate(questions)"
RenderQuestion ==
    /\ pc = "render"
    /\ qi < Len(questions)
    /\ story' = story \o QuestionBlock(At(questions, qi))
    /\ qi' = qi + 1
    /\ UNCHANGED <<pc, built, extractor_vars, translator_vars>>

\* doc.build(story)
BuildPdf ==
    /\ pc = "render"
    /\ ~(qi < Len(questions))
    /\ built' = TRUE
    /\ pc' = "done"
    /\ UNCHANGED <<story, qi, extractor_vars, translator_vars>>

ExtractSteps ==
    \/ SplitAndClean
    \/ FilterBoilerplate
    \/ ScanEmit
    \/ ScanNoOptions
    \/ ScanOther
    \/ ScanReturn

RenderSteps ==
    \/ RenderTitle
    \/ RenderQuestion
    \/ BuildPdf

\* main(): extraction, then rendering
Next == ReadPages(MainPageLines) \/ ExtractSteps \/ RenderSteps

Spec == Init /\ [][Next]_vars

\* extract_questions_from_pdf alone
NextExtract == ReadPages(PageLines) \/ ExtractSteps

SpecExtract == Init /\ [][NextExtract]_vars

(***************************************************************************)
(* comprehensive_translate, one loop iteration at a time.                  *)
(***************************************************************************)

Keys == {COMPREHENSIVE_TRANSLATIONS[n][1] : n \in 1..Len(COMPREHENSIVE_TRANSLATIONS)}

PipelineIdle ==
    /\ pc = "idle"
    /\ full_text = <<>>
    /\ lines = <<>>
    /\ filtered_lines = <<>>
    /\ i = 0
    /\ question_num = 1
    /\ questions = <<>>
    /\ taken = <<>>
    /\ story = <<>>
    /\ qi = 0
    /\ built = FALSE

MaxJoinKeyLen == 3

ShortKeys == {key \in Keys : Len(key) <= MaxJoinKeyLen}

\* a key alone, two short keys with a space between them, and two short keys
\* that share a character
TranslateInputs ==
    Keys
    \cup { a \o <<32>> \o b : a \in ShortKeys, b \in ShortKeys }
    \cup UNION { { a \o Tail(b) : b \in {c \in ShortKeys : c[1] = a[Len(a)]} } :
                    a \in ShortKeys }

InitTranslate ==
    /\ PipelineIdle
    /\ text \in TranslateInputs
    /\ result = <<>>
    /\ k = 0
    /\ tpc = "call"

\* result = text; sorted_translations = sorted(...)
TranslateCall ==
    /\ tpc = "call"
    /\ result' = text
    /\ k' = 1
    /\ tpc' = "loop"
    /\ UNCHANGED <<text, pc, extractor_vars, renderer_vars>>

\* one iteration of "for spanish, russian in sorted_translations"
TranslateStep ==
    /\ tpc = "loop"
    /\ k <= Len(sorted_translations)
    /\ result' = ApplyEntry(result, sorted_translations[k])
    /\ k' = k + 1
    /\ UNCHANGED <<text, tpc, pc, extractor_vars, renderer_vars>>

\* return result
TranslateReturn ==
    /\ tpc = "loop"
    /\ k > Len(sorted_translations)
    /\ tpc' = "done"
    /\ UNCHANGED <<text, result, k, pc, extractor_vars, renderer_vars>>

NextTranslate == TranslateCall \/ TranslateStep \/ TranslateReturn

SpecTranslate == InitTranslate /\ [][NextTranslate]_vars

(***************************************************************************)
(* Properties of extract_questions_from_pdf, checked under SpecExtract.    *)
(***************************************************************************)

\* a step of the scan loop, from cursor i to cursor i'
ScanStep == pc = "scan" /\ pc' = "scan"

\* the record the step has appended
Emitted == Len(questions') = Len(questions) + 1

\* C1: a question candidate that follows the candidate at the cursor is not
\* consumed by the handling of that candidate: it is not among the lines
\* appended to the record's options and the cursor is not advanced past it.
C1_NextQuestionNotConsumed ==
    [][ScanStep =>
          /\ \A m \in (i + 1)..(i' - 1) : ~IsQuestion(At(filtered_lines, m))
          /\ Emitted =>
               \A n \in 1..Len(taken'[Len(taken')]) :
                   ~IsQuestion(At(filtered_lines, taken'[Len(taken')][n]))]_vars

\* C2: every record has between 1 and 5 options, and the options taken from
\* the input are the lines at strictly increasing indices, in that order.
C2_OptionCountAndOrder ==
    \A n \in 1..Len(questions) :
        /\ Len(questions[n].options) >= 1
        /\ Len(questions[n].options) <= 5
        /\ taken[n] # <<>> =>
             /\ Len(taken[n]) = Len(questions[n].options)
             /\ \A m \in 1..Len(taken[n]) :
                    questions[n].options[m] = At(filtered_lines, taken[n][m])
             /\ \A m \in 1..(Len(taken[n]) - 1) : taken[n][m] < taken[n][m + 1]

\* a record whose five options are followed at once by a sixth option line
C2_Witness ==
    \E n \in 1..Len(questions) :
        /\ Len(taken[n]) = 5
        /\ taken[n][5] + 1 < Len(filtered_lines)
        /\ IsLetteredOption(At(filtered_lines, taken[n][5] + 1))

\* the look-ahead at the cursor collects no option
NoOptionAhead == LookAhead(filtered_lines, i, i + 1, <<>>, 0, <<>>).options = <<>>

\* some line among i+1..i+4 holds the word
WordInNextFour(word) ==
    \E m \in (i + 1)..(i + 4) :
        m < Len(filtered_lines) /\ Contains(At(filtered_lines, m), word)

\* C3: for the candidate at the cursor whose look-ahead collected no option,
\* one record with options ["• Verdadero", "• Falso"] is emitted when both
\* words occur among the next 4 lines, and no record otherwise.
C3_TrueFalseFallback ==
    [][(/\ ScanStep
        /\ i < Len(filtered_lines)
        /\ IsQuestion(At(filtered_lines, i))
        /\ NoOptionAhead) =>
          IF WordInNextFour(Verdadero) /\ WordInNextFour(Falso)
          THEN questions' = Append(questions,
                                   [number |-> question_num,
                                    question |-> At(filtered_lines, i),
                                    options |-> <<BULLET_TRUE, BULLET_FALSE>>])
          ELSE questions' = questions]_vars

\* the fallback has emitted a record from lines without a bullet
C3_Witness ==
    /\ pc = "scan"
    /\ filtered_lines = <<QUESTION_1, strip(OTHER_LINE), Verdadero, Falso>>
    /\ Len(questions) = 1
    /\ questions[1].options = <<BULLET_TRUE, BULLET_FALSE>>

StartsWith(s, prefix) == Len(s) >= Len(prefix) /\ SubSeq(s, 1, Len(prefix)) = prefix

\* begins "A.", "B." or "C."
BeginsLettered(option) ==
    \E letter \in {65, 66, 67} : StartsWith(option, <<letter, 46>>)

\* begins with the bullet, then optional whitespace, then Verdadero or Falso
BeginsBoolean(option) ==
    \E n \in 0..Len(option) :
        /\ StartsWith(option, <<8226>>)
        /\ n + 1 <= Len(option)
        /\ \A m \in 2..(n + 1) : option[m] \in Whitespace
        /\ LET word == SubSeq(option, n + 2, Len(option))
           IN  StartsWith(word, Verdadero) \/ StartsWith(word, Falso)

\* C4 as claimed: the options of a record are all lettered choices, or are
\* exactly the pair ["• Verdadero", "• Falso"].
C4_LetteredOrExactPair ==
    \A n \in 1..Len(questions) :
        \/ \A m \in 1..Len(questions[n].options) : BeginsLettered(questions[n].options[m])
        \/ questions[n].options = <<BULLET_TRUE, BULLET_FALSE>>

\* C4 as amended: every option of a record is a lettered choice or a boolean
\* option line, and a list that was not read from the lines is exactly the
\* pair ["• Verdadero", "• Falso"].
C4_LetteredOrBooleanOptions ==
    \A n \in 1..Len(questions) :
        /\ \A m \in 1..Len(questions[n].options) :
               \/ BeginsLettered(questions[n].options[m])
               \/ BeginsBoolean(questions[n].options[m])
        /\ taken[n] = <<>> => questions[n].options = <<BULLET_TRUE, BULLET_FALSE>>

\* a record that mixes a lettered choice with a boolean option read from a line
C4_Witness ==
    \E n \in 1..Len(questions) :
        /\ taken[n] # <<>>
        /\ \E m \in 1..Len(questions[n].options) : BeginsLettered(questions[n].options[m])
        /\ \E m \in 1..Len(questions[n].options) : BeginsBoolean(questions[n].options[m])

\* C5: the k-th record has number k and the counter is one ahead of the
\* number of records, however many candidates were skipped.
C5_ConsecutiveNumbers ==
    /\ question_num = Len(questions) + 1
    /\ \A n \in 1..Len(questions) : questions[n].number = n

\* two records were emitted and a candidate before the second one was skipped
C5_Witness ==
    /\ Len(questions) = 2
    /\ Cardinality({m \in 0..(i - 1) : IsQuestion(At(filtered_lines, m))}) > 2

\* the lowercase form of the line holds the substring, character by character
HoldsLowercase(line, sub) ==
    \E p \in 1..Len(line) :
        /\ p + Len(sub) - 1 <= Len(line)
        /\ \A n \in 1..Len(sub) : LowerChar(line[p + n - 1]) = sub[n]

HoldsBoilerplate(line) == \E skip \in SKIP_SUBSTRINGS : HoldsLowercase(line, skip)

\* C6: once the filter has run, no line that holds a boilerplate substring in
\* any letter case is a filtered line, a question text or an option.
C6_BoilerplateFiltered ==
    pc \notin {"read", "clean", "filter"} =>
        /\ \A n \in 1..Len(filtered_lines) : ~HoldsBoilerplate(filtered_lines[n])
        /\ \A n \in 1..Len(questions) :
              /\ ~HoldsBoilerplate(questions[n].question)
              /\ \A m \in 1..Len(questions[n].options) :
                     ~HoldsBoilerplate(questions[n].options[m])

\* the filter has dropped an upper-case boilerplate line and a boilerplate
\* line that would have been a question candidate
C6_Witness ==
    /\ pc = "scan"
    /\ \E n \in 1..Len(lines) : lines[n] = BOILERPLATE_UPPER
    /\ \E n \in 1..Len(lines) : lines[n] = BOILERPLATE_QUESTION
    /\ Len(filtered_lines) = Len(lines) - 2

\* the look-ahead that started after the cursor stops at index m: the lines
\* end, the 9-line window ends, 5 options were appended, or a line that is not
\* an option is a question or a section header
LookAheadStopsAt(m) ==
    \/ m >= Len(filtered_lines)
    \/ m >= i + 10
    \/ Cardinality({n \in (i + 1)..(m - 1) :
                       \/ IsLetteredOption(At(filtered_lines, n))
                       \/ IsBooleanOption(At(filtered_lines, n))}) >= 5
    \/ /\ ~IsLetteredOption(At(filtered_lines, m))
       /\ ~IsBooleanOption(At(filtered_lines, m))
       /\ IsQuestion(At(filtered_lines, m)) \/ IsSectionHeader(At(filtered_lines, m))

\* C10: every iteration of the scan loop moves the cursor forward, to the
\* stop index of the inner loop (at least i+2, at most i+10, and at most i+5
\* after the fallback) when a record is emitted and by one otherwise; the
\* cursor never exceeds the number of lines; the scan ends.
C10_ScanTerminates ==
    /\ [](i <= Len(filtered_lines))
    /\ [][ScanStep =>
            IF Emitted
            THEN /\ i' >= i + 2
                 /\ i' <= i + 10
                 /\ IF taken'[Len(taken')] = <<>>
                    THEN i' = IF i + 5 <= Len(filtered_lines) THEN i + 5 ELSE Len(filtered_lines)
                    ELSE /\ LookAheadStopsAt(i')
                         /\ \A m \in (i + 1)..(i' - 1) : ~LookAheadStopsAt(m)
            ELSE i' = i + 1]_vars
    /\ <>(pc = "title")

\* the look-ahead of the first question has stopped at the end of its
\* 9-line window although more lines follow
C10_Witness ==
    /\ pc = "scan"
    /\ i = 10
    /\ Len(questions) = 1
    /\ Len(filtered_lines) > 10

\* the single thread runs the extraction for as long as it can
NextFair == ReadPages(FairPageLines) \/ ExtractSteps

FairSpecExtract == Init /\ [][NextFair]_vars /\ WF_vars(NextFair)

(***************************************************************************)
(* Properties of comprehensive_translate, checked under SpecTranslate.     *)
(***************************************************************************)

ValueOf(key) ==
    LET n == CHOOSE m \in 1..Len(COMPREHENSIVE_TRANSLATIONS) : COMPREHENSIVE_TRANSLATIONS[m][1] = key
    IN  COMPREHENSIVE_TRANSLATIONS[n][2]

\* a shorter key occurs inside the key
HasShorterSubKey(key) ==
    \E n \in 1..Len(COMPREHENSIVE_TRANSLATIONS) :
        /\ Len(COMPREHENSIVE_TRANSLATIONS[n][1]) < Len(key)
        /\ Contains(key, COMPREHENSIVE_TRANSLATIONS[n][1])

\* C7: a text that is a dictionary key is translated to exactly the value of
\* the key; no key applied later alters the value.
C7_KeyMapsToValue == (tpc = "done" /\ text \in Keys) => result = ValueOf(text)

\* a key that holds a shorter key was translated to its non-empty value
C7_Witness ==
    /\ tpc = "done"
    /\ text \in Keys
    /\ HasShorterSubKey(text)
    /\ result # <<>>
    /\ result = ValueOf(text)

\* the occurrence of key at position p of t shares a character with an
\* occurrence of a longer key
OverlappedByLongerKey(t, key, p) ==
    \E n \in 1..Len(COMPREHENSIVE_TRANSLATIONS) :
        LET longer == COMPREHENSIVE_TRANSLATIONS[n][1]
        IN  /\ Len(longer) > Len(key)
            /\ \E q \in 1..Len(t) :
                  /\ MatchesAt(t, longer, q)
                  /\ q <= p + Len(key) - 1
                  /\ p <= q + Len(longer) - 1

\* C8 as claimed: when the entry of a key that holds a shorter key is reached,
\* an occurrence of the key in the input that no longer key overlaps is still
\* whole in the result, to be replaced by the value of the key.
C8_InputOccurrenceReplacedWhole ==
    (tpc = "loop" /\ k <= Len(sorted_translations)) =>
        LET key == sorted_translations[k][1]
        IN  (/\ \E p \in 1..Len(text) :
                   MatchesAt(text, key, p) /\ ~OverlappedByLongerKey(text, key, p)
             /\ HasShorterSubKey(key))
            => Contains(result, key)

\* C8 as amended: the entries are applied in order of non-increasing key
\* length, a key is reached before every shorter key that occurs inside it,
\* and the leftmost occurrence of the key in the result at that moment is
\* replaced as a whole by the value of the key, the text before it unchanged.
C8_LongestFirst ==
    /\ []((tpc = "loop" /\ k > 1 /\ k <= Len(sorted_translations)) =>
            Len(sorted_translations[k - 1][1]) >= Len(sorted_translations[k][1]))
    /\ []((tpc = "loop" /\ k <= Len(sorted_translations)) =>
            \A n \in 1..(k - 1) :
                ~(/\ Len(sorted_translations[n][1]) < Len(sorted_translations[k][1])
                  /\ Contains(sorted_translations[k][1], sorted_translations[n][1])))
    /\ [][(tpc = "loop" /\ k' = k + 1 /\ Contains(result, sorted_translations[k][1])) =>
            \E p \in 1..Len(result) :
                /\ MatchesAt(result, sorted_translations[k][1], p)
                /\ \A q \in 1..(p - 1) : ~MatchesAt(result, sorted_translations[k][1], q)
                /\ SubSeq(result', 1, p - 1) = SubSeq(result, 1, p - 1)
                /\ MatchesAt(result', sorted_translations[k][2], p)]_vars

\* inside a longer input, a key that holds a shorter key has just been
\* replaced by its value
C8_Witness ==
    /\ tpc = "loop"
    /\ k > 1
    /\ LET key == sorted_translations[k - 1][1]
           value == sorted_translations[k - 1][2]
       IN  /\ text # key
           /\ Contains(text, key)
           /\ value # <<>>
           /\ Contains(result, value)
           /\ ~Contains(result, key)
           /\ HasShorterSubKey(key)

(***************************************************************************)
(* Properties of create_bilingual_pdf, checked under Spec.                 *)
(***************************************************************************)

\* C9: the story is title, subtitle, spacer and then one block per record in
\* input order: the Spanish question line, the Spanish options in order, the
\* translated question line, the translated options in the same order, and a
\* spacer; n records give n blocks.
C9_StoryOrder ==
    /\ [](pc \in {"render", "done"} =>
            /\ Len(story) >= 3
            /\ story[1] = [type |-> "Paragraph", text |-> TITLE_TEXT, style |-> "title_style"]
            /\ story[2] = [type |-> "Paragraph", text |-> SUBTITLE_TEXT, style |-> "subtitle_style"]
            /\ story[3] = [type |-> "Spacer", width |-> 1, height |-> 15]
            /\ Cardinality({n \in 4..Len(story) : story[n].type = "Spacer"}) = qi
            /\ Cardinality({n \in 4..Len(story) :
                               /\ story[n].type = "Paragraph"
                               /\ story[n].style = "question_style"}) = qi)
    /\ [](pc = "done" => qi = Len(questions) /\ built)
    /\ [][(pc = "render" /\ qi' = qi + 1) =>
            LET q == questions[qi + 1]
                n == Len(q.options)
                base == Len(story)
                label == str(qi + 1) \o <<46, 32>>
            IN  /\ q.number = qi + 1
                /\ Len(story') = base + 2 * n + 3
                /\ SubSeq(story', 1, base) = story
                /\ story'[base + 1] =
                       [type |-> "Paragraph", style |-> "question_style",
                        text |-> <<60, 98, 62>> \o label \o q.question \o <<60, 47, 98, 62>>]
                /\ \A m \in 1..n :
                       story'[base + 1 + m] =
                           [type |-> "Paragraph", style |-> "answer_style",
                            text |-> q.options[m]]
                /\ story'[base + n + 2] =
                       [type |-> "Paragraph", style |-> "russian_question_style",
                        text |-> <<60, 98, 62>> \o label \o comprehensive_translate(q.question)
                                              \o <<60, 47, 98, 62>>]
                /\ \A m \in 1..n :
                       story'[base + n + 2 + m] =
                           [type |-> "Paragraph", style |-> "russian_answer_style",
                            text |-> comprehensive_translate(q.options[m])]
                /\ story'[base + 2 * n + 3] = [type |-> "Spacer", width |-> 1, height |-> 12]]_vars

\* the story of two records with options has been built
C9_Witness ==
    /\ pc = "done"
    /\ Len(questions) = 2
    /\ questions[1].question # questions[2].question
    /\ Len(story) = 3 + 2 * Len(questions[1].options) + 3 + 2 * Len(questions[2].options) + 3
====
